---- MODULE Spec2Model ----
(***************************************************************************)
(* Model of the thurup game engine: backend/app/game/session.py            *)
(* (GameSession), rules.py, trick_manager.py and hidden_trump.py.          *)
(*                                                                         *)
(* The session is one record `sess` holding the fields of GameSession and  *)
(* of its TrickManager.  Every handler is an operator from a session       *)
(* record and its arguments to a result record                             *)
(*   [s |-> session afterwards, ok, msg, args, raised],                    *)
(* written branch by branch from the Python source.                        *)
(***************************************************************************)
EXTENDS Integers, Sequences, FiniteSets, TLC

(***************************************************************************)
(* Bounds of the model.                                                    *)
(***************************************************************************)
Seats == 3          \* seat count of the modelled session (GameSession.seats)
NumSuits == 2       \* suits put into the deck
NumRanks == 3       \* ranks put into the deck
NumShuffles == 1    \* random streams the shuffle may draw from
MaxHistory == 2     \* rounds archived before the model stops following the session
NumCallers == 2     \* concurrent callers of the lock protocol
MaxTrick == 3       \* longest trick handed to determine_trick_winner
NumGames == 2       \* game ids the bot runner registry is asked about
MaxTasks == 3       \* bot runner tasks created before scheduling stops

(***************************************************************************)
(* Python values.  None is modelled by a sentinel outside every domain the *)
(* field can hold: an integer for Optional[int], a string for              *)
(* Optional[str].                                                          *)
(***************************************************************************)
None == -2
NoSuit == "None"

(***************************************************************************)
(* constants.py                                                            *)
(***************************************************************************)
PASS == -1
MIN_BID_DEFAULT == 14
MAX_BID_28 == 28
MAX_BID_56 == 56
MODE_28 == "28"
MODE_56 == "56"
Suit == <<"S", "H", "D", "C">>
CardRank == <<"7", "8", "9", "10", "J", "Q", "K", "A">>
CardPoints == [r \in {"7", "8", "9", "10", "J", "Q", "K", "A"} |->
                 CASE r = "J" -> 3
                   [] r = "9" -> 2
                   [] r = "A" -> 1
                   [] r = "10" -> 1
                   [] OTHER -> 0]

(***************************************************************************)
(* enums.py                                                                *)
(***************************************************************************)
ON_FIRST_NONFOLLOW == "on_first_nonfollow"
ON_FIRST_TRUMP_PLAY == "on_first_trump_play"
ON_BIDDER_NONFOLLOW == "on_bidder_nonfollow"
OPEN_IMMEDIATELY == "open_immediately"
HiddenTrumpMode == {ON_FIRST_NONFOLLOW, ON_FIRST_TRUMP_PLAY,
                    ON_BIDDER_NONFOLLOW, OPEN_IMMEDIATELY}
LOBBY == "lobby"
DEALING == "dealing"
BIDDING == "bidding"
CHOOSE_TRUMP == "choose_trump"
PLAY == "play"
SCORING == "scoring"
ROUND_END == "round_end"
SessionState == {LOBBY, DEALING, BIDDING, CHOOSE_TRUMP, PLAY, SCORING, ROUND_END}

(***************************************************************************)
(* Sequence helpers.                                                       *)
(***************************************************************************)
Range(q) == {q[i] : i \in 1..Len(q)}

RECURSIVE SumSeq(_)
SumSeq(q) == IF q = <<>> THEN 0 ELSE Head(q) + SumSeq(Tail(q))

RECURSIVE Concat(_)
Concat(qq) == IF qq = <<>> THEN <<>> ELSE Head(qq) \o Concat(Tail(qq))

Swap(q, i, j) == [q EXCEPT ![i] = q[j], ![j] = q[i]]

RemoveAtKeep(q, i) == q

RemoveAt(q, i) == SubSeq(q, 1, i - 1) \o SubSeq(q, i + 1, Len(q))

\* index of the first card of the hand with the given id, 0 if there is none
FirstIndex(hand, card_id) ==
  IF \E i \in 1..Len(hand) : hand[i].uid = card_id
    THEN CHOOSE i \in 1..Len(hand) :
           hand[i].uid = card_id /\ \A j \in 1..(i - 1) : hand[j].uid # card_id
    ELSE 0

(***************************************************************************)
(* rules.py: cards and decks.                                              *)
(***************************************************************************)
\* The deck of the model holds the first NumSuits suits and the NumRanks
\* ranks picked first by RankPick, in the order of SUITS and RANKS_28.
RankPick == <<"J", "9", "A", "7", "10", "K", "Q", "8">>
DeckRankSet == {RankPick[i] : i \in 1..NumRanks}
SUITS == SubSeq(Suit, 1, NumSuits)
RANKS_28 == SelectSeq(CardRank, LAMBDA r : r \in DeckRankSet)

TRUMP_RANK_ORDER == <<"7", "8", "Q", "K", "10", "A", "9", "J">>
NON_TRUMP_RANK_ORDER == <<"7", "8", "Q", "K", "10", "A", "9", "J">>
\* enumerate() counts from 0
TRUMP_RANK_INDEX == [r \in Range(TRUMP_RANK_ORDER) |->
  (CHOOSE i \in 1..Len(TRUMP_RANK_ORDER) : TRUMP_RANK_ORDER[i] = r) - 1]
NON_TRUMP_RANK_INDEX == [r \in Range(NON_TRUMP_RANK_ORDER) |->
  (CHOOSE i \in 1..Len(NON_TRUMP_RANK_ORDER) : NON_TRUMP_RANK_ORDER[i] = r) - 1]
CARD_POINTS == CardPoints

\* uid is f"{r}{s}#{d+1}", injective in (r, s, d): kept as the triple
Card(s, r, d) == [suit |-> s, rank |-> r, uid |-> <<r, s, d>>]
points(c) == IF c.rank \in DOMAIN CARD_POINTS THEN CARD_POINTS[c.rank] ELSE 0

make_deck(mode, two_decks_for_56) ==
  LET decks == IF mode = MODE_56 /\ two_decks_for_56 THEN 2 ELSE 1
      OneSuit(d, s) == [k \in 1..Len(RANKS_28) |-> Card(s, RANKS_28[k], d)]
      OneDeck(d) == Concat([j \in 1..Len(SUITS) |-> OneSuit(d, SUITS[j])])
  IN Concat([d \in 1..decks |-> OneDeck(d)])

\* rng.shuffle is Fisher-Yates: for i = n-1 down to 1, j = randbelow(i+1),
\* swap x[i], x[j].  randbelow draws from the stream of a fresh
\* random.Random(); the model draws it from NumShuffles streams.
randbelow(stream, i) == ((stream + 1) * (i + 3) + (i * i) \div 2) % (i + 1)

RECURSIVE FisherYates(_, _, _)
FisherYates(d, stream, i) ==
  IF i < 1 THEN d
  ELSE FisherYates(Swap(d, i + 1, randbelow(stream, i) + 1), stream, i - 1)

shuffle_deck(deck, stream) == FisherYates(deck, stream, Len(deck) - 1)

Streams == 0..(NumShuffles - 1)

deal_no_kitty(deck, seats) ==
  LET hand_size == Len(deck) \div seats
  IN [hands |-> [seat \in 0..(seats - 1) |->
                   [k \in 1..hand_size |-> deck[(k - 1) * seats + seat + 1]]],
      kitty |-> <<>>]

deal(deck, seats) ==
  LET hand_size == Len(deck) \div seats
      dealt == hand_size * seats
  IN [hands |-> [seat \in 0..(seats - 1) |->
                   [k \in 1..hand_size |-> deck[(k - 1) * seats + seat + 1]]],
      kitty |-> SubSeq(deck, dealt + 1, Len(deck))]

(***************************************************************************)
(* rules.py: ranking.  A trick is a sequence of <<seat, card>>.            *)
(***************************************************************************)
get_rank_value(card, is_trump) ==
  IF is_trump THEN TRUMP_RANK_INDEX[card.rank] ELSE NON_TRUMP_RANK_INDEX[card.rank]

RECURSIVE HighestFromLast(_, _, _, _)
HighestFromLast(candidates, i, winner, is_trump_trick) ==
  IF i > Len(candidates) THEN winner
  ELSE IF get_rank_value(candidates[i][2], is_trump_trick)
            >= get_rank_value(winner[2], is_trump_trick)
         THEN HighestFromLast(candidates, i + 1, candidates[i], is_trump_trick)
         ELSE HighestFromLast(candidates, i + 1, winner, is_trump_trick)

\* the loop of determine_trick_winner over candidates[1:]
RECURSIVE HighestFrom(_, _, _, _)
HighestFrom(candidates, i, winner, is_trump_trick) ==
  IF i > Len(candidates) THEN winner
  ELSE IF get_rank_value(candidates[i][2], is_trump_trick)
            > get_rank_value(winner[2], is_trump_trick)
         THEN HighestFrom(candidates, i + 1, candidates[i], is_trump_trick)
         ELSE HighestFrom(candidates, i + 1, winner, is_trump_trick)

determine_trick_winner(trick, trump) ==
  LET lead_suit == trick[1][2].suit
      trump_cards == IF trump # NoSuit
                       THEN SelectSeq(trick, LAMBDA t : t[2].suit = trump)
                       ELSE <<>>
      is_trump_trick == trump_cards # <<>>
      candidates == IF is_trump_trick
                      THEN trump_cards
                      ELSE SelectSeq(trick, LAMBDA t : t[2].suit = lead_suit)
  IN HighestFrom(candidates, 2, candidates[1], is_trump_trick)[1]

trick_points(trick) == SumSeq([i \in 1..Len(trick) |-> points(trick[i][2])])

(***************************************************************************)
(* trick_manager.py: TrickManager.  Its three fields live in the session   *)
(* record: current_trick, last_trick (<<>> for None, else <<winner,        *)
(* trick>>) and captured_tricks (sequence of <<winner, trick>>).           *)
(***************************************************************************)
TrickManager_reset(s) ==
  [s EXCEPT !.current_trick = <<>>, !.last_trick = <<>>, !.captured_tricks = <<>>]

add_card_first(s, seat, card) ==
  [s EXCEPT !.current_trick = <<<<seat, card>>>> \o @]

add_card_to_current_trick(s, seat, card) ==
  [s EXCEPT !.current_trick = Append(@, <<seat, card>>)]

is_trick_complete(s, seats) == Len(s.current_trick) >= seats

get_lead_suit(s) ==
  IF s.current_trick = <<>> THEN NoSuit ELSE s.current_trick[1][2].suit

complete_trick_discard(s, trump) ==
  LET winner == determine_trick_winner(s.current_trick, trump)
      pts == trick_points(s.current_trick)
  IN [s |-> [s EXCEPT !.points_by_seat[winner] = @ + pts,
                      !.last_trick = <<winner, s.current_trick>>,
                      !.current_trick = <<>>],
      winner |-> winner]

complete_trick_to_leader(s, trump) ==
  LET winner == determine_trick_winner(s.current_trick, trump)
      pts == trick_points(s.current_trick)
  IN [s |-> [s EXCEPT !.points_by_seat[s.current_trick[1][1]] = @ + pts,
                      !.last_trick = <<winner, s.current_trick>>,
                      !.captured_tricks = Append(@, <<winner, s.current_trick>>),
                      !.current_trick = <<>>],
      winner |-> winner]

\* returns the session afterwards and the winner
complete_trick(s, trump) ==
  LET winner == determine_trick_winner(s.current_trick, trump)
      pts == trick_points(s.current_trick)
  IN [s |-> [s EXCEPT !.points_by_seat[winner] = @ + pts,
                      !.last_trick = <<winner, s.current_trick>>,
                      !.captured_tricks = Append(@, <<winner, s.current_trick>>),
                      !.current_trick = <<>>],
      winner |-> winner]

get_captured_tricks_for_serialization(s) ==
  [i \in 1..Len(s.captured_tricks) |->
     [winner |-> s.captured_tricks[i][1],
      cards |-> s.captured_tricks[i][2],
      points |-> trick_points(s.captured_tricks[i][2])]]

(***************************************************************************)
(* hidden_trump.py: HiddenTrumpManager.                                    *)
(***************************************************************************)
has_suit(hand, suit) == \E i \in 1..Len(hand) : hand[i].suit = suit

should_reveal_trump_any_seat(trump_hidden, hidden_trump_mode, played_card, trump_suit, trump_owner_seat, player_seat, current_trick, player_hand) ==
  IF ~trump_hidden THEN FALSE
  ELSE IF trump_suit = NoSuit THEN FALSE
  ELSE IF hidden_trump_mode = OPEN_IMMEDIATELY THEN TRUE
  ELSE IF hidden_trump_mode = ON_FIRST_TRUMP_PLAY /\ played_card.suit = trump_suit
    THEN TRUE
  ELSE IF /\ hidden_trump_mode \in {ON_FIRST_NONFOLLOW, ON_BIDDER_NONFOLLOW}
          /\ Len(current_trick) >= 1
          /\ has_suit(player_hand, current_trick[1][2].suit)
          /\ played_card.suit # current_trick[1][2].suit
    THEN TRUE
  ELSE FALSE

should_reveal_trump_any_card(trump_hidden, hidden_trump_mode, played_card, trump_suit, trump_owner_seat, player_seat, current_trick, player_hand) ==
  IF ~trump_hidden THEN FALSE
  ELSE IF trump_suit = NoSuit THEN FALSE
  ELSE IF hidden_trump_mode = OPEN_IMMEDIATELY THEN TRUE
  ELSE IF hidden_trump_mode = ON_FIRST_TRUMP_PLAY THEN TRUE
  ELSE IF /\ hidden_trump_mode = ON_FIRST_NONFOLLOW
          /\ Len(current_trick) >= 1
          /\ has_suit(player_hand, current_trick[1][2].suit)
          /\ played_card.suit # current_trick[1][2].suit
    THEN TRUE
  ELSE IF /\ hidden_trump_mode = ON_BIDDER_NONFOLLOW
          /\ player_seat = trump_owner_seat
          /\ current_trick # <<>>
          /\ has_suit(player_hand, current_trick[1][2].suit)
          /\ played_card.suit # current_trick[1][2].suit
    THEN TRUE
  ELSE FALSE

should_reveal_trump_off_suit(trump_hidden, hidden_trump_mode, played_card, trump_suit, trump_owner_seat, player_seat, current_trick, player_hand) ==
  IF ~trump_hidden THEN FALSE
  ELSE IF trump_suit = NoSuit THEN FALSE
  ELSE IF hidden_trump_mode = OPEN_IMMEDIATELY THEN TRUE
  ELSE IF hidden_trump_mode = ON_FIRST_TRUMP_PLAY /\ played_card.suit = trump_suit
    THEN TRUE
  ELSE IF /\ hidden_trump_mode = ON_FIRST_NONFOLLOW
          /\ Len(current_trick) >= 1
          /\ played_card.suit # current_trick[1][2].suit
    THEN TRUE
  ELSE IF /\ hidden_trump_mode = ON_BIDDER_NONFOLLOW
          /\ player_seat = trump_owner_seat
          /\ current_trick # <<>>
          /\ played_card.suit # current_trick[1][2].suit
    THEN TRUE
  ELSE FALSE

should_reveal_trump(trump_hidden, hidden_trump_mode, played_card, trump_suit, trump_owner_seat, player_seat, current_trick, player_hand) ==
  IF ~trump_hidden THEN FALSE
  ELSE IF trump_suit = NoSuit THEN FALSE
  ELSE IF hidden_trump_mode = OPEN_IMMEDIATELY THEN TRUE
  ELSE IF hidden_trump_mode = ON_FIRST_TRUMP_PLAY /\ played_card.suit = trump_suit
    THEN TRUE
  ELSE IF /\ hidden_trump_mode = ON_FIRST_NONFOLLOW
          /\ Len(current_trick) >= 1
          /\ has_suit(player_hand, current_trick[1][2].suit)
          /\ played_card.suit # current_trick[1][2].suit
    THEN TRUE
  ELSE IF /\ hidden_trump_mode = ON_BIDDER_NONFOLLOW
          /\ player_seat = trump_owner_seat
          /\ current_trick # <<>>
          /\ has_suit(player_hand, current_trick[1][2].suit)
          /\ played_card.suit # current_trick[1][2].suit
    THEN TRUE
  ELSE FALSE

validate_manual_reveal_can_follow(trump_hidden, player_seat, current_turn, current_trick, player_hand) ==
  IF ~trump_hidden THEN <<FALSE, "Trump already revealed">>
  ELSE IF player_seat # current_turn THEN <<FALSE, "Not your turn">>
  ELSE IF current_trick = <<>> THEN <<FALSE, "Cannot reveal trump when leading">>
  ELSE <<TRUE, "">>

\* returns <<is_valid, error_message>>
validate_manual_reveal(trump_hidden, player_seat, current_turn, current_trick, player_hand) ==
  IF ~trump_hidden THEN <<FALSE, "Trump already revealed">>
  ELSE IF player_seat # current_turn THEN <<FALSE, "Not your turn">>
  ELSE IF current_trick = <<>> THEN <<FALSE, "Cannot reveal trump when leading">>
  ELSE IF has_suit(player_hand, current_trick[1][2].suit)
    THEN <<FALSE, "You can follow suit, cannot reveal trump">>
  ELSE <<TRUE, "">>

(***************************************************************************)
(* session.py: GameSession.                                                *)
(* players is the set of occupied seats (the keys of the players dict).    *)
(***************************************************************************)
SeatRange(seats) == 0..(seats - 1)

GameSession(mode, seats, hidden_trump_mode, min_bid, two_decks_for_56) ==
  [mode |-> mode, seats |-> seats, hidden_trump_mode |-> hidden_trump_mode,
   min_bid |-> min_bid, two_decks_for_56 |-> two_decks_for_56,
   deck |-> <<>>, kitty |-> <<>>,
   hands |-> [i \in SeatRange(seats) |-> <<>>],
   players |-> {},
   state |-> LOBBY,
   bids |-> [i \in SeatRange(seats) |-> None],
   current_highest |-> None, bid_winner |-> None, bid_value |-> None,
   trump |-> NoSuit, trump_hidden |-> TRUE, trump_owner |-> None,
   current_dealer |-> 0, leader |-> 0, turn |-> 0,
   current_trick |-> <<>>, last_trick |-> <<>>, captured_tricks |-> <<>>,
   points_by_seat |-> [i \in SeatRange(seats) |-> 0],
   rounds_history |-> <<>>,
   bids_received |-> {}]

\* what a handler hands back: the session afterwards and its return value.
\* msg is the message with its format fields left as written, args the
\* values formatted into it; raised marks an exception instead of a return.
Result(s, ok, msg, args) == [s |-> s, ok |-> ok, msg |-> msg, args |-> args, raised |-> FALSE]
Raise(s, msg) == [s |-> s, ok |-> FALSE, msg |-> msg, args |-> <<>>, raised |-> TRUE]

compute_scores_strict(s) ==
  LET team(k) == SumSeq([i \in 1..s.seats |->
                    IF (i - 1) % 2 = k THEN s.points_by_seat[i - 1] ELSE 0])
      team_points == [k \in {0, 1} |-> team(k)]
      winning_team == IF s.bid_winner % 2 = 0 THEN 0 ELSE 1
  IN [team_points |-> team_points,
      bid_outcome |->
        IF s.bid_winner # None /\ s.bid_value # None
          THEN <<[bid_winner |-> s.bid_winner, bid_value |-> s.bid_value,
                  winning_team |-> winning_team,
                  success |-> team_points[winning_team] > s.bid_value]>>
          ELSE <<>>]

compute_scores(s) ==
  LET team(k) == SumSeq([i \in 1..s.seats |->
                    IF (i - 1) % 2 = k THEN s.points_by_seat[i - 1] ELSE 0])
      team_points == [k \in {0, 1} |-> team(k)]
      winning_team == IF s.bid_winner % 2 = 0 THEN 0 ELSE 1
  IN [team_points |-> team_points,
      bid_outcome |->
        IF s.bid_winner # None /\ s.bid_value # None
          THEN <<[bid_winner |-> s.bid_winner, bid_value |-> s.bid_value,
                  winning_team |-> winning_team,
                  success |-> team_points[winning_team] >= s.bid_value]>>
          ELSE <<>>]

round_data(s, dealer) ==
  [round_number |-> Len(s.rounds_history) + 1,
   dealer |-> dealer,
   bid_winner |-> s.bid_winner,
   bid_value |-> s.bid_value,
   trump |-> s.trump,
   captured_tricks |-> get_captured_tricks_for_serialization(s),
   points_by_seat |-> s.points_by_seat,
   team_scores |-> compute_scores(s)]

add_player_highest(s, is_player_info) ==
  IF ~is_player_info THEN Raise(s, "player must be a PlayerInfo instance")
  ELSE IF \E f \in SeatRange(s.seats) : f \notin s.players
    THEN LET free == CHOOSE f \in SeatRange(s.seats) :
                       /\ f \notin s.players
                       /\ \A g \in SeatRange(s.seats) : g > f => g \in s.players
         IN Result([s EXCEPT !.players = @ \cup {free}], TRUE, "seat", <<free>>)
    ELSE Raise(s, "No free seats")

add_player(s, is_player_info) ==
  IF ~is_player_info THEN Raise(s, "player must be a PlayerInfo instance")
  ELSE IF \E f \in SeatRange(s.seats) : f \notin s.players
    THEN LET free == CHOOSE f \in SeatRange(s.seats) :
                       /\ f \notin s.players
                       /\ \A g \in SeatRange(s.seats) : g < f => g \in s.players
         IN Result([s EXCEPT !.players = @ \cup {free}], TRUE, "seat", <<free>>)
    ELSE Raise(s, "No free seats")

remove_player(s, seat) ==
  Result([s EXCEPT !.players = @ \ {seat}], TRUE, "None", <<>>)

next_dealer_argument(s, dealer) == dealer

\* the dealer of the round being started (lines 103, 125, 133)
next_dealer(s, dealer) ==
  IF s.captured_tricks # <<>> THEN (s.current_dealer + 1) % s.seats ELSE dealer

leader_of_right(dealer, seats) == (dealer + 1) % seats

\* the seat that bids and leads first (line 144)
leader_of(dealer, seats) == (dealer - 1) % seats

reset_trump_suit_only(s) == [s EXCEPT !.trump = NoSuit, !.trump_owner = None]

\* the trump fields start_round clears (lines 163-165)
reset_trump(s) ==
  [s EXCEPT !.trump = NoSuit, !.trump_hidden = TRUE, !.trump_owner = None]

start_round(s, dealer, stream) ==
  LET had_round == s.captured_tricks # <<>>
      s1 == IF had_round
              THEN [s EXCEPT !.rounds_history = Append(@, round_data(s, s.current_dealer)),
                             !.current_dealer = next_dealer(s, dealer)]
              ELSE [s EXCEPT !.current_dealer = next_dealer(s, dealer)]
      deck == shuffle_deck(make_deck(s.mode, s.two_decks_for_56), stream)
      d == deal(deck, s.seats)
      leader == leader_of(s1.current_dealer, s.seats)
      s2 == [s1 EXCEPT !.deck = deck, !.hands = d.hands, !.kitty = d.kitty,
                       !.leader = leader, !.turn = leader,
                       !.state = BIDDING,
                       !.bids = [i \in SeatRange(s.seats) |-> None],
                       !.bids_received = {},
                       !.current_highest = None, !.bid_winner = None,
                       !.bid_value = None,
                       !.points_by_seat = [i \in SeatRange(s.seats) |-> 0]]
  IN Result(TrickManager_reset(reset_trump(s2)), TRUE, "True", <<>>)

\* place_bid, the part under the lock (lines 221-286); need_redeal is the
\* local variable read after the lock is released
BidResult(s, ok, msg, args, need_redeal) ==
  [s |-> s, ok |-> ok, msg |-> msg, args |-> args, raised |-> FALSE,
   need_redeal |-> need_redeal]

\* BidCmd.value is Optional[int] (models.py), so the isinstance branch of
\* line 242 is never taken and is left out.
is_turn_next_too(s, seat) == seat = s.turn \/ seat = (s.turn + 1) % s.seats

is_turn(s, seat) == seat = s.turn

not_higher_ties_pass(s, val) == s.current_highest # None /\ val < s.current_highest

\* strict-improvement check (line 253)
not_higher(s, val) == s.current_highest # None /\ val <= s.current_highest

bidding_complete_early(s) ==
  Cardinality({i \in DOMAIN s.bids : s.bids[i] # None}) >= s.seats - 1

\* "no None left" (line 277)
bidding_complete(s) == \A i \in DOMAIN s.bids : s.bids[i] # None

record_bid_first_winner(s, seat, val) ==
  LET b == [s EXCEPT !.bids[seat] = val, !.bids_received = @ \cup {seat}]
  IN IF s.current_highest = None
       THEN [b EXCEPT !.current_highest = val, !.bid_winner = seat, !.bid_value = val]
     ELSE IF val > s.current_highest
       THEN [b EXCEPT !.current_highest = val, !.bid_value = val]
     ELSE b

\* an accepted numeric bid is recorded (lines 255-260)
record_bid(s, seat, val) ==
  LET b == [s EXCEPT !.bids[seat] = val, !.bids_received = @ \cup {seat}]
  IN IF s.current_highest = None \/ val > s.current_highest
       THEN [b EXCEPT !.current_highest = val, !.bid_winner = seat, !.bid_value = val]
       ELSE b

next_bidder_up(s) == (s.turn + 1) % s.seats

\* "advance to next seat (clockwise)" (line 272)
next_bidder(s) == (s.turn - 1) % s.seats

place_bid_locked(s, seat, val) ==
  IF s.state # BIDDING THEN BidResult(s, FALSE, "Not in bidding phase", <<>>, FALSE)
  ELSE IF seat \notin s.players THEN BidResult(s, FALSE, "Unknown seat", <<>>, FALSE)
  ELSE IF ~is_turn(s, seat) THEN BidResult(s, FALSE, "Not your turn to bid", <<>>, FALSE)
  ELSE IF s.bids[seat] # None THEN BidResult(s, FALSE, "Seat already acted", <<>>, FALSE)
  ELSE
    LET is_pass == val = None \/ val = PASS
        max_total == IF s.mode = MODE_28 THEN MAX_BID_28 ELSE MAX_BID_56
    IN
    IF ~is_pass /\ val < s.min_bid
      THEN BidResult(s, FALSE, "Bid must be >= {self.min_bid}", <<s.min_bid>>, FALSE)
    ELSE IF ~is_pass /\ val > max_total
      THEN BidResult(s, FALSE, "Bid cannot exceed {max_total}", <<max_total>>, FALSE)
    ELSE IF ~is_pass /\ not_higher(s, val)
      THEN BidResult(s, FALSE, "Bid must be higher than current highest", <<>>, FALSE)
    ELSE
      LET s1 == IF is_pass
                  THEN [s EXCEPT !.bids[seat] = PASS,
                                 !.bids_received = @ \cup {seat}]
                  ELSE record_bid(s, seat, val)
          s2 == [s1 EXCEPT !.turn = next_bidder(s1)]
      IN IF bidding_complete(s2)
           THEN IF \A i \in DOMAIN s2.bids : s2.bids[i] = PASS
                  THEN BidResult(s2, TRUE, "All passed: will redeal", <<>>, TRUE)
                  ELSE BidResult([s2 EXCEPT !.state = CHOOSE_TRUMP], TRUE,
                                 "Bid accepted; bidding complete", <<>>, FALSE)
           ELSE BidResult(s2, TRUE, "Bid accepted", <<>>, FALSE)

place_bid_no_redeal(s, seat, val, stream) ==
  LET r == place_bid_locked(s, seat, val)
  IN Result(r.s, r.ok, r.msg, r.args)

\* place_bid as one uninterrupted call: the locked part, then the redeal
\* by start_round() with its default dealer (lines 288-296)
place_bid(s, seat, val, stream) ==
  LET r == place_bid_locked(s, seat, val)
  IN IF r.need_redeal
       THEN Result(start_round(r.s, 0, stream).s, TRUE, "All passed: redealt", <<>>)
       ELSE Result(r.s, r.ok, r.msg, r.args)

choose_trump_any_phase(s, seat, suit) ==
  IF seat # s.bid_winner
    THEN Result(s, FALSE, "Only bid winner can choose trump", <<>>)
  ELSE IF suit \notin Range(Suit) THEN Result(s, FALSE, "INVALID_SUIT", <<>>)
  ELSE Result([s EXCEPT !.trump = suit, !.trump_hidden = TRUE,
                        !.trump_owner = seat, !.state = PLAY,
                        !.turn = s.leader],
              TRUE, "Trump chosen", <<>>)

choose_trump_any_seat(s, seat, suit) ==
  IF s.state # CHOOSE_TRUMP THEN Result(s, FALSE, "Not waiting for trump", <<>>)
  ELSE IF suit \notin Range(Suit) THEN Result(s, FALSE, "INVALID_SUIT", <<>>)
  ELSE Result([s EXCEPT !.trump = suit, !.trump_hidden = TRUE,
                        !.trump_owner = seat, !.state = PLAY,
                        !.turn = s.leader],
              TRUE, "Trump chosen", <<>>)

choose_trump(s, seat, suit) ==
  IF s.state # CHOOSE_TRUMP THEN Result(s, FALSE, "Not waiting for trump", <<>>)
  ELSE IF seat # s.bid_winner
    THEN Result(s, FALSE, "Only bid winner can choose trump", <<>>)
  ELSE IF suit \notin Range(Suit) THEN Result(s, FALSE, "INVALID_SUIT", <<>>)
  ELSE Result([s EXCEPT !.trump = suit, !.trump_hidden = TRUE,
                        !.trump_owner = seat, !.state = PLAY,
                        !.turn = s.leader],
              TRUE, "Trump chosen", <<>>)

reveal_trump_flip(s, seat) ==
  IF s.state # PLAY THEN Result(s, FALSE, "Not in play phase", <<>>)
  ELSE IF seat \notin s.players THEN Result(s, FALSE, "Unknown seat", <<>>)
  ELSE
    LET v == validate_manual_reveal(TRUE, seat, s.turn, s.current_trick, s.hands[seat])
    IN IF ~v[1] THEN Result(s, FALSE, v[2], <<>>)
       ELSE Result([s EXCEPT !.trump_hidden = ~@], TRUE,
                   "Trump revealed: {self.trump}", <<>>)

reveal_trump(s, seat) ==
  IF s.state # PLAY THEN Result(s, FALSE, "Not in play phase", <<>>)
  ELSE IF seat \notin s.players THEN Result(s, FALSE, "Unknown seat", <<>>)
  ELSE
    LET v == validate_manual_reveal(s.trump_hidden, seat, s.turn,
                                    s.current_trick, s.hands[seat])
    IN IF ~v[1] THEN Result(s, FALSE, v[2], <<>>)
       ELSE Result([s EXCEPT !.trump_hidden = FALSE], TRUE,
                   "Trump revealed: {self.trump}", <<>>)

player_has_suit_always(s, seat, suit) == TRUE

player_has_suit_never(s, seat, suit) == FALSE

player_has_suit(s, seat, suit) == has_suit(s.hands[seat], suit)

visible_trump_always(s) == s.trump

\* the trump handed to complete_trick (line 467)
visible_trump(s) == IF ~s.trump_hidden THEN s.trump ELSE NoSuit

hands_nearly_empty(s) == \A i \in DOMAIN s.hands : Len(s.hands[i]) <= 1

\* all(len(h) == 0 for h in self.hands) (line 475)
all_hands_empty(s) == \A i \in DOMAIN s.hands : Len(s.hands[i]) = 0

advance_turn_up(s) == (s.turn + 1) % s.seats

\* "advance turn (clockwise)" (lines 460-461)
advance_turn(s) == (s.turn - 1) % s.seats

play_card(s, seat, card_id) ==
  IF s.state # PLAY THEN Result(s, FALSE, "Not in play phase", <<>>)
  ELSE IF ~is_turn(s, seat) THEN Result(s, FALSE, "Not your turn", <<>>)
  ELSE
    LET k == FirstIndex(s.hands[seat], card_id)
    IN
    IF k = 0 THEN Result(s, FALSE, "Card not in hand", <<>>)
    ELSE
      LET card == s.hands[seat][k]
          lead_suit == get_lead_suit(s)
      IN
      IF lead_suit # NoSuit /\ player_has_suit(s, seat, lead_suit)
           /\ card.suit # lead_suit
        THEN Result(s, FALSE, "Must follow suit if possible", <<>>)
      ELSE
        LET hand_before_play == s.hands[seat]
            s1 == add_card_to_current_trick(
                    [s EXCEPT !.hands[seat] = RemoveAt(@, k)], seat, card)
            trick_before_card == SubSeq(s1.current_trick, 1, Len(s1.current_trick) - 1)
            should_reveal == should_reveal_trump(
                               s1.trump_hidden, s1.hidden_trump_mode, card, s1.trump,
                               s1.trump_owner, seat, trick_before_card,
                               hand_before_play)
            s2 == IF should_reveal THEN [s1 EXCEPT !.trump_hidden = FALSE] ELSE s1
            s3 == [s2 EXCEPT !.turn = advance_turn(s2)]
        IN
        IF is_trick_complete(s3, s3.seats)
          THEN
            LET ct == complete_trick(s3, visible_trump(s3))
                winner == ct.winner
                \* points_by_seat[winner] - points_by_seat.get(winner, 0)
                pts == ct.s.points_by_seat[winner] - ct.s.points_by_seat[winner]
                s4 == [ct.s EXCEPT !.leader = winner, !.turn = winner]
                s5 == IF all_hands_empty(s4)
                        THEN LET sc == [s4 EXCEPT !.state = SCORING]
                             IN [sc EXCEPT !.rounds_history =
                                               Append(@, round_data(sc, sc.leader))]
                        ELSE s4
            IN Result(s5, TRUE, "Trick complete. Winner: {winner} (+{pts} pts)",
                      <<winner, pts>>)
          ELSE Result(s3, TRUE, "Card played", <<>>)

\* Card.to_dict (rules.py lines 51-52)
to_dict(c) == [suit |-> c.suit, rank |-> c.rank, id |-> c.uid]

\* seat -> card dict of the trick in progress, None (<<>>) without one
get_current_trick_dict(s) ==
  IF s.current_trick = <<>> THEN <<>>
  ELSE {<<s.current_trick[i][1], to_dict(s.current_trick[i][2])>> : i \in 1..Len(s.current_trick)}

get_last_trick_dict(s) ==
  IF s.last_trick = <<>> THEN <<>>
  ELSE [winner |-> s.last_trick[1],
        cards |-> {<<s.last_trick[2][i][1], to_dict(s.last_trick[2][i][2])>> : i \in 1..Len(s.last_trick[2])}]

get_public_state_open_trump(s) ==
  [mode |-> s.mode, seats |-> s.seats, state |-> s.state,
   players |-> s.players,
   dealer |-> s.current_dealer, leader |-> s.leader, turn |-> s.turn,
   trump |-> s.trump,
   kitty |-> [i \in 1..Len(s.kitty) |-> to_dict(s.kitty[i])],
   hand_sizes |-> [i \in SeatRange(s.seats) |-> Len(s.hands[i])],
   bids |-> s.bids, current_highest |-> s.current_highest,
   bid_winner |-> s.bid_winner, bid_value |-> s.bid_value,
   points_by_seat |-> s.points_by_seat,
   current_trick |-> get_current_trick_dict(s),
   lead_suit |-> get_lead_suit(s),
   last_trick |-> get_last_trick_dict(s),
   rounds_history |-> s.rounds_history]

\* GameStateDTO without game_id and short_code, which the model leaves out
get_public_state(s) ==
  [mode |-> s.mode, seats |-> s.seats, state |-> s.state,
   players |-> s.players,
   dealer |-> s.current_dealer, leader |-> s.leader, turn |-> s.turn,
   trump |-> IF s.trump_hidden THEN NoSuit ELSE s.trump,
   kitty |-> [i \in 1..Len(s.kitty) |-> to_dict(s.kitty[i])],
   hand_sizes |-> [i \in SeatRange(s.seats) |-> Len(s.hands[i])],
   bids |-> s.bids, current_highest |-> s.current_highest,
   bid_winner |-> s.bid_winner, bid_value |-> s.bid_value,
   points_by_seat |-> s.points_by_seat,
   current_trick |-> get_current_trick_dict(s),
   lead_suit |-> get_lead_suit(s),
   last_trick |-> get_last_trick_dict(s),
   rounds_history |-> s.rounds_history]

(***************************************************************************)
(* db/persistence.py: SessionPersistence.  The snapshot is a record; the   *)
(* attribute names GameSession.__init__ creates are kept as a set, because *)
(* the serializer reads the session by attribute name.                     *)
(***************************************************************************)
GameSessionAttributes ==
  {"id", "short_code", "mode", "seats", "hidden_trump_mode", "min_bid",
   "two_decks_for_56", "deck", "kitty", "hands", "players", "state", "bids",
   "current_highest", "bid_winner", "bid_value", "trump", "trump_hidden",
   "trump_owner", "current_dealer", "leader", "turn", "trick_manager",
   "points_by_seat", "rounds_history", "_bids_received", "_lock"}

\* the attributes _serialize_full_state reads, in the order it reads them
SerializedAttributes ==
  <<"id", "short_code", "mode", "seats", "hidden_trump_mode", "min_bid",
    "two_decks_for_56", "state", "deck", "kitty", "hands", "bids",
    "_bids_received", "current_highest", "bid_winner", "bid_value", "trump",
    "trump_hidden", "trump_owner", "leader", "turn", "current_trick",
    "captured_tricks", "points_by_seat">>

_card_to_dict(c) == [suit |-> c.suit, rank |-> c.rank, uid |-> c.uid]
_dict_to_card(d) == [suit |-> d.suit, rank |-> d.rank, uid |-> d.uid]

cards_to_dicts(q) == [i \in 1..Len(q) |-> _card_to_dict(q[i])]
dicts_to_cards(q) == [i \in 1..Len(q) |-> _dict_to_card(q[i])]
trick_to_lists(q) == [i \in 1..Len(q) |-> <<q[i][1], _card_to_dict(q[i][2])>>]
lists_to_trick(q) == [i \in 1..Len(q) |-> <<q[i][1], _dict_to_card(q[i][2])>>]

\* reading an attribute the session does not have raises AttributeError;
\* the trick in progress and the captured tricks live in
\* session.trick_manager, not in the session
_serialize_full_state(s) ==
  IF \E i \in 1..Len(SerializedAttributes) : SerializedAttributes[i] \notin GameSessionAttributes
    THEN Raise(s, "AttributeError")
    ELSE Result(s, TRUE, "snapshot",
           <<[mode |-> s.mode, seats |-> s.seats,
              hidden_trump_mode |-> s.hidden_trump_mode, min_bid |-> s.min_bid,
              two_decks_for_56 |-> s.two_decks_for_56, state |-> s.state,
              deck |-> cards_to_dicts(s.deck), kitty |-> cards_to_dicts(s.kitty),
              hands |-> [i \in SeatRange(s.seats) |-> cards_to_dicts(s.hands[i])],
              bids |-> s.bids, bids_received |-> s.bids_received,
              current_highest |-> s.current_highest, bid_winner |-> s.bid_winner,
              bid_value |-> s.bid_value, trump |-> s.trump,
              trump_hidden |-> s.trump_hidden, trump_owner |-> s.trump_owner,
              leader |-> s.leader, turn |-> s.turn,
              current_trick |-> trick_to_lists(s.current_trick),
              captured_tricks |-> [i \in 1..Len(s.captured_tricks) |->
                                     <<s.captured_tricks[i][1],
                                       trick_to_lists(s.captured_tricks[i][2])>>],
              points_by_seat |-> s.points_by_seat]>>)

\* a new GameSession with the snapshot's values assigned; current_trick and
\* captured_tricks are assigned to the session object (lines 267-274) and
\* never reach its trick_manager, which stays as __init__ made it
_deserialize_full_state(data) ==
  [GameSession(data.mode, data.seats, data.hidden_trump_mode, data.min_bid, data.two_decks_for_56)
     EXCEPT !.state = data.state,
            !.deck = dicts_to_cards(data.deck),
            !.kitty = dicts_to_cards(data.kitty),
            !.hands = [i \in SeatRange(data.seats) |-> dicts_to_cards(data.hands[i])],
            !.bids = data.bids, !.bids_received = data.bids_received,
            !.current_highest = data.current_highest,
            !.bid_winner = data.bid_winner, !.bid_value = data.bid_value,
            !.trump = data.trump, !.trump_hidden = data.trump_hidden,
            !.trump_owner = data.trump_owner,
            !.leader = data.leader, !.turn = data.turn,
            !.points_by_seat = data.points_by_seat]

\* save_session up to the snapshot: an exception rolls the transaction back
\* and the call answers False (lines 83, 117-120)
save_session(s) ==
  LET snap == _serialize_full_state(s)
  IN IF snap.raised THEN Result(s, FALSE, "session_save_failed", <<>>)
     ELSE Result(s, TRUE, "session_saved", snap.args)

(***************************************************************************)
(* State.                                                                  *)
(*   sess    the GameSession                                               *)
(*   ret     what the handler that returned last handed to its caller      *)
(*   lock    holder of GameSession._lock (a caller, or None)               *)
(*   waiters callers queued on the lock, first come first served           *)
(*   calls   per caller: where it stands in the handler it is running      *)
(*   rk      the last trick ranked and the winner computed for it          *)
(*   bots    the bot runner registry (bot_tasks) and the tasks created     *)
(***************************************************************************)
VARIABLES sess, ret, lock, waiters, calls, rk, bots

vars == <<sess, ret, lock, waiters, calls, rk, bots>>

Callers == 1..NumCallers
Idle == [pc |-> "idle", op |-> "none"]

\* the handler that returned last and what it returned
Returned(op, r) ==
  [op |-> op, ok |-> r.ok, msg |-> r.msg, args |-> r.args, raised |-> r.raised]

NoReturn == [op |-> "none", ok |-> TRUE, msg |-> "", args |-> <<>>, raised |-> FALSE]
NoRank == [trick |-> <<>>, trump |-> NoSuit, winner |-> None]
NoBots == [bot_tasks |-> [g \in 1..NumGames |-> None], tasks |-> <<>>]

\* inputs the callers draw from
SeatInputs == 0..Seats
PassInputs == {None, PASS}
BogusId == <<"?", "?", 0>>
AllCardIds(s) == {s.deck[i].uid : i \in 1..Len(s.deck)} \cup {BogusId}
\* the seats that call: the seat whose turn it is, the bid winner and a
\* seat number nobody sits at
ActingSeats(s) ==
  {s.turn, Seats} \cup (IF s.bid_winner = None THEN {} ELSE {s.bid_winner})
\* the turn seat names a card of its own hand or an id no hand holds; a
\* seat out of turn is turned away before its card is looked at
CardIdInputs(s, seat) ==
  IF seat = s.turn /\ seat \in DOMAIN s.hands
    THEN {s.hands[seat][i].uid : i \in 1..Len(s.hands[seat])} \cup {BogusId}
    ELSE {BogusId}

TableFull(s) == \A i \in SeatRange(s.seats) : i \in s.players

InitWith(modes, htmodes, minbids) ==
  /\ sess \in {GameSession(m, Seats, h, b, TRUE) :
                 m \in modes, h \in htmodes, b \in minbids}
  /\ ret = NoReturn
  /\ lock = None
  /\ waiters = <<>>
  /\ calls = [p \in Callers |-> Idle]
  /\ rk = NoRank
  /\ bots = NoBots

Handled(op, r) ==
  /\ sess' = r.s
  /\ ret' = Returned(op, r)
  /\ UNCHANGED <<lock, waiters, calls, rk, bots>>

\* One action per handler, run start to end with the lock its own.
\* Callers of the repository seat players before a round starts
\* (rest.py join_game / start_game) and never call remove_player, so the
\* environment removes players only in the lobby and starts rounds only
\* on a full table.  Clients reveal and play while the session is in PLAY.
AddPlayer == \E is_player_info \in BOOLEAN :
  Handled("add_player", add_player(sess, is_player_info))

RemovePlayer == \E seat \in SeatRange(Seats) :
  /\ sess.state = LOBBY
  /\ Handled("remove_player", remove_player(sess, seat))

StartRoundOf(phases, dealers, streams) == \E dealer \in dealers, stream \in streams :
  /\ TableFull(sess)
  /\ sess.state \in phases
  /\ Handled("start_round", start_round(sess, dealer, stream))

PlaceBidOf(vals, streams) == \E seat \in ActingSeats(sess), val \in vals :
  IF place_bid_locked(sess, seat, val).need_redeal
    THEN \E stream \in streams :
           Handled("place_bid", place_bid(sess, seat, val, stream))
    ELSE Handled("place_bid", place_bid(sess, seat, val, 0))

ChooseTrumpOf(suits) == \E seat \in ActingSeats(sess), suit \in suits :
  Handled("choose_trump", choose_trump(sess, seat, suit))

RevealTrump == \E seat \in ActingSeats(sess) :
  /\ sess.state = PLAY
  /\ Handled("reveal_trump", reveal_trump(sess, seat))

PlayCard == \E seat \in ActingSeats(sess) : \E card_id \in CardIdInputs(sess, seat) :
  /\ sess.state = PLAY
  /\ Handled("play_card", play_card(sess, seat, card_id))

\* the turn seat plays the first card of its hand that play_card accepts
AcceptedIds(s) ==
  {card_id \in CardIdInputs(s, s.turn) : play_card(s, s.turn, card_id).ok}

FirstAccepted(s) ==
  LET hand == s.hands[s.turn]
      k == CHOOSE i \in 1..Len(hand) :
             /\ hand[i].uid \in AcceptedIds(s)
             /\ \A j \in 1..(i - 1) : hand[j].uid \notin AcceptedIds(s)
  IN hand[k].uid

PlayFirstAccepted ==
  /\ sess.state = PLAY
  /\ AcceptedIds(sess) # {}
  /\ Handled("play_card", play_card(sess, sess.turn, FirstAccepted(sess)))

(***************************************************************************)
(* Spec: one round of the game in the session rest.py creates (mode 28,   *)
(* default reveal mode, default minimum bid).                              *)
(***************************************************************************)
Init == InitWith({MODE_28}, {ON_FIRST_NONFOLLOW}, {MIN_BID_DEFAULT})

StartRound == StartRoundOf({LOBBY}, {1}, Streams)
PlaceBid == sess.state = BIDDING /\ PlaceBidOf(PassInputs \cup {MIN_BID_DEFAULT}, Streams)
ChooseTrump == sess.state = CHOOSE_TRUMP /\ ChooseTrumpOf({Suit[1], Suit[2], "X"})

Next ==
  \/ AddPlayer
  \/ RemovePlayer
  \/ StartRound
  \/ PlaceBid
  \/ ChooseTrump
  \/ RevealTrump
  \/ PlayCard

Spec == Init /\ [][Next]_vars

(***************************************************************************)
(* SpecPlay: the play of one round after one deal and one trump suit;      *)
(* every seat may try any card of its hand and may ask for the reveal.     *)
(***************************************************************************)
StartRoundPlay == StartRoundOf({LOBBY}, {1}, {0})
PlaceBidPlay == sess.state = BIDDING /\ PlaceBidOf({PASS, MIN_BID_DEFAULT}, {0})
ChooseTrumpPlay == sess.state = CHOOSE_TRUMP /\ ChooseTrumpOf({Suit[1]})

NextPlay ==
  \/ AddPlayer
  \/ StartRoundPlay
  \/ PlaceBidPlay
  \/ ChooseTrumpPlay
  \/ RevealTrump
  \/ PlayCard

SpecPlay == Init /\ [][NextPlay]_vars

\* the round of SpecPlay in which a seat whose turn it is does not put off
\* playing a card the session accepts for ever: weak fairness of the
\* accepted play_card, WF_vars(PlayLegalCard), written out with the enabling
\* condition of that step, state = PLAY, in the place of ENABLED
PlayLegalCard == sess.state = PLAY /\ ret'.op = "play_card" /\ ret'.ok

SpecPlayFair ==
  SpecPlay /\ ([]<>(sess.state # PLAY) \/ []<><<PlayLegalCard>>_vars)

(***************************************************************************)
(* SpecReveal: one round under each of the four reveal modes.  The leader  *)
(* bids the minimum, the other seats pass, the winner picks either of two  *)
(* suits, and every seat may try any card of its hand or ask for the       *)
(* reveal.  start_round may cut the round short during its first trick.    *)
(***************************************************************************)
InitReveal == InitWith({MODE_28}, HiddenTrumpMode, {MIN_BID_DEFAULT})

StartRoundReveal == sess.captured_tricks = <<>> /\ StartRoundOf({LOBBY, PLAY}, {1}, {0})
PlaceBidReveal == sess.state = BIDDING /\ PlaceBidOf(IF sess.bids_received = {} THEN {MIN_BID_DEFAULT} ELSE {PASS}, {0})
ChooseTrumpReveal == sess.state = CHOOSE_TRUMP /\ ChooseTrumpOf({Suit[1], Suit[2]})

\* the lock-free read of the snapshot every client is sent
GetPublicState ==
  Handled("get_public_state", Result(sess, TRUE, "dto", <<get_public_state(sess)>>))

NextReveal ==
  \/ AddPlayer
  \/ StartRoundReveal
  \/ PlaceBidReveal
  \/ ChooseTrumpReveal
  \/ RevealTrump
  \/ PlayCard
  \/ GetPublicState

SpecReveal == InitReveal /\ [][NextReveal]_vars

(***************************************************************************)
(* SpecBid: the bidding round in both game modes, with bids around the     *)
(* minimum, around each other and around the maximum of either mode.       *)
(***************************************************************************)
InitBid == InitWith({MODE_28, MODE_56}, {ON_FIRST_NONFOLLOW},
                    {MIN_BID_DEFAULT, MIN_BID_DEFAULT + 2})

BidValues == PassInputs \cup {MIN_BID_DEFAULT, MIN_BID_DEFAULT + 1,
                              MIN_BID_DEFAULT + 2, MAX_BID_28, MAX_BID_28 + 1,
                              MAX_BID_56}

StartRoundBid == StartRoundOf({LOBBY, BIDDING, CHOOSE_TRUMP}, {0, 1}, Streams)
PlaceBidBid == PlaceBidOf(BidValues, Streams)

NextBid ==
  \/ AddPlayer
  \/ StartRoundBid
  \/ PlaceBidBid

SpecBid == InitBid /\ [][NextBid]_vars

(***************************************************************************)
(* SpecAuction: the bidding round of SpecBid followed by the choice of     *)
(* trump, which ends the auction and opens the play.                       *)
(***************************************************************************)
ChooseTrumpAuction == sess.state = CHOOSE_TRUMP /\ ChooseTrumpOf({Suit[1]})

NextAuction ==
  \/ AddPlayer
  \/ StartRoundBid
  \/ PlaceBidBid
  \/ ChooseTrumpAuction

SpecAuction == InitBid /\ [][NextAuction]_vars

(***************************************************************************)
(* SpecRounds: rounds played one after the other from one shuffle stream,  *)
(* a new round being started from the lobby, during the bidding or after   *)
(* the scoring.                                                            *)
(***************************************************************************)
InitRounds == InitWith({MODE_28}, {ON_FIRST_NONFOLLOW}, {MIN_BID_DEFAULT})

StartRoundRounds == StartRoundOf({LOBBY, BIDDING, CHOOSE_TRUMP, SCORING}, {0, 2}, {0})
PlaceBidRounds == PlaceBidOf({PASS, MIN_BID_DEFAULT}, {0})
ChooseTrumpRounds == ChooseTrumpOf({Suit[1]})

\* the session is followed until MaxHistory rounds are archived
RoundsOpen == Len(sess.rounds_history) < MaxHistory

NextRounds ==
  \/ RoundsOpen /\ AddPlayer
  \/ RoundsOpen /\ StartRoundRounds
  \/ RoundsOpen /\ PlaceBidRounds
  \/ RoundsOpen /\ ChooseTrumpRounds
  \/ RoundsOpen /\ RevealTrump
  \/ RoundsOpen /\ PlayFirstAccepted

SpecRounds == InitRounds /\ [][NextRounds]_vars

(***************************************************************************)
(* SpecConc: the lock protocol.  A caller stands at one of                 *)
(*   idle            outside every handler                                 *)
(*   waiting         at `async with self._lock` of handler op              *)
(*   locked          inside the lock, the body of op not yet run           *)
(*   redeal          place_bid after its lock section, need_redeal set,    *)
(*                   at `await self.start_round()` (line 291)              *)
(*   redeal_waiting  at `async with self._lock` of that start_round        *)
(*   redeal_locked   inside the lock of that start_round                   *)
(* asyncio.Lock hands the lock to its waiters first come first served.     *)
(* The body under the lock holds no await and runs as one step that ends   *)
(* with the release of the lock.  Arguments are inputs that do not depend  *)
(* on the session; the model draws them when the body runs.                *)
(***************************************************************************)
Handlers == {"add_player", "remove_player", "start_round", "place_bid",
             "choose_trump", "reveal_trump", "play_card"}

At(p, pc) == calls[p].pc = pc
Running(p, op) == calls[p].pc = "locked" /\ calls[p].op = op

InitConc == InitWith({MODE_28}, {ON_FIRST_NONFOLLOW}, {MIN_BID_DEFAULT})

\* a caller invokes a handler its client offers in the current phase and
\* queues on the lock; the phase may have changed when the handler runs
Invoke(p) == \E op \in Handlers :
  /\ At(p, "idle")
  /\ op = "start_round" => TableFull(sess)
  /\ op \in {"add_player", "remove_player"} => sess.state = LOBBY
  /\ op = "place_bid" => sess.state = BIDDING
  /\ op = "choose_trump" => sess.state = CHOOSE_TRUMP
  /\ op \in {"reveal_trump", "play_card"} => sess.state = PLAY
  /\ calls' = [calls EXCEPT ![p] = [pc |-> "waiting", op |-> op]]
  /\ waiters' = Append(waiters, p)
  /\ UNCHANGED <<sess, ret, lock, rk, bots>>

AcquireHeld(p) ==
  /\ calls[p].pc \in {"waiting", "redeal_waiting"}
  /\ waiters # <<>> /\ Head(waiters) = p
  /\ lock' = p
  /\ waiters' = Tail(waiters)
  /\ calls' = [calls EXCEPT ![p].pc =
                 IF calls[p].pc = "waiting" THEN "locked" ELSE "redeal_locked"]
  /\ UNCHANGED <<sess, ret, rk, bots>>

AcquireLast(p) ==
  /\ calls[p].pc \in {"waiting", "redeal_waiting"}
  /\ lock = None
  /\ waiters # <<>> /\ waiters[Len(waiters)] = p
  /\ lock' = p
  /\ waiters' = SubSeq(waiters, 1, Len(waiters) - 1)
  /\ calls' = [calls EXCEPT ![p].pc =
                 IF calls[p].pc = "waiting" THEN "locked" ELSE "redeal_locked"]
  /\ UNCHANGED <<sess, ret, rk, bots>>

\* Lock.acquire: the lock is free and p is the first waiter
Acquire(p) ==
  /\ calls[p].pc \in {"waiting", "redeal_waiting"}
  /\ lock = None
  /\ waiters # <<>> /\ Head(waiters) = p
  /\ lock' = p
  /\ waiters' = Tail(waiters)
  /\ calls' = [calls EXCEPT ![p].pc =
                 IF calls[p].pc = "waiting" THEN "locked" ELSE "redeal_locked"]
  /\ UNCHANGED <<sess, ret, rk, bots>>

\* the body of a handler and the release of the lock at the end of the
\* `async with` block; the handler returns r
Release(p, op, r) ==
  /\ lock = p
  /\ sess' = r.s
  /\ ret' = Returned(op, r)
  /\ lock' = None
  /\ calls' = [calls EXCEPT ![p] = Idle]
  /\ UNCHANGED <<waiters, rk, bots>>

RunAddPlayer(p) == \E is_player_info \in BOOLEAN :
  /\ Running(p, "add_player")
  /\ Release(p, "add_player", add_player(sess, is_player_info))

RunRemovePlayer(p) ==
  /\ Running(p, "remove_player")
  /\ Release(p, "remove_player", remove_player(sess, Seats - 1))

RunStartRound(p) ==
  /\ Running(p, "start_round")
  /\ Release(p, "start_round", start_round(sess, 1, 0))

RunPlaceBidHolding(p) == \E seat \in ActingSeats(sess), val \in {PASS, MIN_BID_DEFAULT} :
  /\ Running(p, "place_bid")
  /\ LET r == place_bid_locked(sess, seat, val)
     IN IF r.need_redeal
          THEN /\ lock = p
               /\ sess' = r.s
               /\ calls' = [calls EXCEPT ![p].pc = "redeal"]
               /\ UNCHANGED <<ret, lock, waiters, rk, bots>>
          ELSE Release(p, "place_bid", Result(r.s, r.ok, r.msg, r.args))

\* place_bid under the lock; with need_redeal set the handler goes on to
\* call start_round after the release and has not returned yet
RunPlaceBid(p) == \E seat \in ActingSeats(sess), val \in {PASS, MIN_BID_DEFAULT} :
  /\ Running(p, "place_bid")
  /\ LET r == place_bid_locked(sess, seat, val)
     IN IF r.need_redeal
          THEN /\ lock = p
               /\ sess' = r.s
               /\ lock' = None
               /\ calls' = [calls EXCEPT ![p].pc = "redeal"]
               /\ UNCHANGED <<ret, waiters, rk, bots>>
          ELSE Release(p, "place_bid", Result(r.s, r.ok, r.msg, r.args))

RedealCall(p) ==
  /\ At(p, "redeal")
  /\ calls' = [calls EXCEPT ![p].pc = "redeal_waiting"]
  /\ waiters' = Append(waiters, p)
  /\ UNCHANGED <<sess, ret, lock, rk, bots>>

RunRedeal(p) ==
  /\ At(p, "redeal_locked")
  /\ Release(p, "place_bid",
             Result(start_round(sess, 0, 0).s, TRUE, "All passed: redealt", <<>>))

RunChooseTrump(p) == \E seat \in ActingSeats(sess) :
  /\ Running(p, "choose_trump")
  /\ Release(p, "choose_trump", choose_trump(sess, seat, Suit[1]))

RunRevealTrump(p) == \E seat \in ActingSeats(sess) :
  /\ Running(p, "reveal_trump")
  /\ Release(p, "reveal_trump", reveal_trump(sess, seat))

RunPlayCard(p) == \E seat \in ActingSeats(sess) : \E card_id \in CardIdInputs(sess, seat) :
  /\ Running(p, "play_card")
  /\ Release(p, "play_card", play_card(sess, seat, card_id))

\* the session is followed until the first card is played
BetweenTricks == sess.current_trick = <<>>

NextConc ==
  \/ \E p \in Callers : BetweenTricks /\ Invoke(p)
  \/ \E p \in Callers : BetweenTricks /\ Acquire(p)
  \/ \E p \in Callers : BetweenTricks /\ RunAddPlayer(p)
  \/ \E p \in Callers : BetweenTricks /\ RunRemovePlayer(p)
  \/ \E p \in Callers : BetweenTricks /\ RunStartRound(p)
  \/ \E p \in Callers : BetweenTricks /\ RunPlaceBid(p)
  \/ \E p \in Callers : BetweenTricks /\ RedealCall(p)
  \/ \E p \in Callers : BetweenTricks /\ RunRedeal(p)
  \/ \E p \in Callers : BetweenTricks /\ RunChooseTrump(p)
  \/ \E p \in Callers : BetweenTricks /\ RunRevealTrump(p)
  \/ \E p \in Callers : BetweenTricks /\ RunPlayCard(p)

SpecConc == InitConc /\ [][NextConc]_vars

\* new calls are made until the first card is played; a call that was made
\* runs to its return whenever that is
NextConcFair ==
  \/ \E p \in Callers : BetweenTricks /\ Invoke(p)
  \/ \E p \in Callers : Acquire(p)
  \/ \E p \in Callers : RunAddPlayer(p)
  \/ \E p \in Callers : RunRemovePlayer(p)
  \/ \E p \in Callers : RunStartRound(p)
  \/ \E p \in Callers : RunPlaceBid(p)
  \/ \E p \in Callers : RedealCall(p)
  \/ \E p \in Callers : RunRedeal(p)
  \/ \E p \in Callers : RunChooseTrump(p)
  \/ \E p \in Callers : RunRevealTrump(p)
  \/ \E p \in Callers : RunPlayCard(p)

\* a caller can take its next step when it is inside a lock section or about
\* to call the start_round of a redeal, and when it waits first in line for
\* a free lock
CanProceed(p) ==
  \/ calls[p].pc \in {"locked", "redeal", "redeal_locked"}
  \/ /\ calls[p].pc \in {"waiting", "redeal_waiting"}
     /\ lock = None
     /\ waiters # <<>> /\ Head(waiters) = p

\* the next step of a caller inside a handler: it takes the lock, runs the
\* body and releases, or goes on to the start_round of a redeal
Proceeds(p) == calls[p].pc # "idle" /\ calls'[p] # calls[p]

\* the event loop runs every task that is ready, so a caller that can
\* proceed is not left waiting for ever: weak fairness of each caller's
\* steps, WF_vars(Proceeds(p)), written out with CanProceed(p) in the place
\* of ENABLED
SpecConcFair ==
  /\ InitConc /\ [][NextConcFair]_vars
  /\ \A p \in Callers : []<>(~CanProceed(p)) \/ []<><<Proceeds(p)>>_vars

(***************************************************************************)
(* SpecRank: determine_trick_winner on every trick of up to MaxTrick cards *)
(* over all eight ranks, with and without a trump.  Equal rank and suit in *)
(* one trick are the twin cards of the two merged decks; the uid plays no  *)
(* part in the ranking.                                                    *)
(***************************************************************************)
\* the suit led, a second suit and a third: every case of the ranking
RankSuits == {Suit[1], Suit[2], Suit[3]}
RankCards == {Card(s, r, 1) : s \in RankSuits, r \in Range(CardRank)}

RankTrick ==
  /\ rk = NoRank
  /\ bots = NoBots
  /\ \E n \in 1..MaxTrick : \E cards \in [1..n -> RankCards] :
       \E trump \in RankSuits \cup {NoSuit} :
         LET trick == [i \in 1..n |-> <<i - 1, cards[i]>>]
         IN rk' = [trick |-> trick, trump |-> trump,
                   winner |-> determine_trick_winner(trick, trump)]
  /\ UNCHANGED <<sess, ret, lock, waiters, calls, bots>>

SpecRank == InitRounds /\ [][RankTrick]_vars

(***************************************************************************)
(* SpecScore: compute_scores on sessions whose points and bid are set the  *)
(* way tests/unit/test_scoring.py sets them.                               *)
(***************************************************************************)
ScorePoints == {0, 6, 8, 14}
ScoreBids == {None, MIN_BID_DEFAULT, MAX_BID_28}

InitScore ==
  /\ sess \in {[GameSession(MODE_28, Seats, ON_FIRST_NONFOLLOW, MIN_BID_DEFAULT, TRUE)
                  EXCEPT !.points_by_seat = pts, !.bid_winner = w, !.bid_value = v] :
                 pts \in [SeatRange(Seats) -> ScorePoints],
                 w \in SeatRange(Seats) \cup {None},
                 v \in ScoreBids}
  /\ ret = NoReturn
  /\ lock = None
  /\ waiters = <<>>
  /\ calls = [p \in Callers |-> Idle]
  /\ rk = NoRank
  /\ bots = NoBots

ComputeScores ==
  /\ ret = NoReturn
  /\ Handled("compute_scores", Result(sess, TRUE, "scores", <<compute_scores(sess)>>))

SpecScore == InitScore /\ [][ComputeScores]_vars

(***************************************************************************)
(* SpecPhase: one round in which clients also call handlers of another     *)
(* phase than the session is in (a late or repeated request).              *)
(***************************************************************************)
StartRoundPhase == StartRoundOf({LOBBY}, {1}, {0})
PlaceBidPhase == PlaceBidOf({PASS, MIN_BID_DEFAULT}, {0})
ChooseTrumpPhase == ChooseTrumpOf({Suit[1]})

RevealTrumpLate == \E seat \in ActingSeats(sess) :
  /\ sess.state # PLAY
  /\ Handled("reveal_trump", reveal_trump(sess, seat))

PlayCardLate == \E seat \in ActingSeats(sess) : \E card_id \in CardIdInputs(sess, seat) :
  /\ sess.state # PLAY
  /\ Handled("play_card", play_card(sess, seat, card_id))

NextPhase ==
  \/ AddPlayer
  \/ StartRoundPhase
  \/ PlaceBidPhase
  \/ ChooseTrumpPhase
  \/ RevealTrump
  \/ RevealTrumpLate
  \/ PlayFirstAccepted
  \/ PlayCardLate

SpecPhase == InitRounds /\ [][NextPhase]_vars

(***************************************************************************)
(* SpecDeal: sessions of both modes, one or two decks and two seat counts  *)
(* (one of which leaves a kitty); rounds are started, restarted and        *)
(* redealt after every seat passed.                                        *)
(***************************************************************************)
DealSeats == {Seats, Seats + 1}

InitDeal ==
  /\ sess \in {GameSession(m, n, ON_FIRST_NONFOLLOW, MIN_BID_DEFAULT, t) :
                 m \in {MODE_28, MODE_56}, n \in DealSeats, t \in BOOLEAN}
  /\ ret = NoReturn
  /\ lock = None
  /\ waiters = <<>>
  /\ calls = [p \in Callers |-> Idle]
  /\ rk = NoRank
  /\ bots = NoBots

StartRoundDeal == StartRoundOf({LOBBY, BIDDING, CHOOSE_TRUMP}, {0, 1}, Streams)
PlaceBidDeal == PlaceBidOf({PASS, MIN_BID_DEFAULT}, Streams)

NextDeal ==
  \/ AddPlayer
  \/ StartRoundDeal
  \/ PlaceBidDeal

SpecDeal == InitDeal /\ [][NextDeal]_vars

(***************************************************************************)
(* api/v1/bot_runner.py: schedule_bot_runner.  bots.bot_tasks maps a game  *)
(* id to the task registered for it; bots.tasks lists the tasks created,   *)
(* each "running", "done" (finished, its done callback still queued) or    *)
(* "cleaned" (callback run).  schedule_bot_runner has no await, so it is   *)
(* one step; a task finishes, and its callback runs, in steps of their own.*)
(***************************************************************************)
Games == 1..NumGames

unfinished(b, t) == t # None /\ b.tasks[t].status = "running"

\* the done callback of task t
cleanup_any_entry(b, t) ==
  [b EXCEPT !.tasks[t].status = "cleaned",
            !.bot_tasks[b.tasks[t].game] = None]

cleanup(b, t) ==
  LET game_id == b.tasks[t].game
  IN IF b.bot_tasks[game_id] = t
       THEN [b EXCEPT !.tasks[t].status = "cleaned", !.bot_tasks[game_id] = None]
       ELSE [b EXCEPT !.tasks[t].status = "cleaned"]

schedule_bot_runner(b, game_id) ==
  IF unfinished(b, b.bot_tasks[game_id]) THEN b
  ELSE [b EXCEPT !.tasks = Append(@, [game |-> game_id, status |-> "running"]),
                 !.bot_tasks[game_id] = Len(b.tasks) + 1]

ScheduleBotRunner == \E game_id \in Games :
  /\ Len(bots.tasks) < MaxTasks \/ unfinished(bots, bots.bot_tasks[game_id])
  /\ bots' = schedule_bot_runner(bots, game_id)
  /\ UNCHANGED <<sess, ret, lock, waiters, calls, rk>>

\* run_bots_for_game returns
TaskDone == \E t \in DOMAIN bots.tasks :
  /\ bots.tasks[t].status = "running"
  /\ bots' = [bots EXCEPT !.tasks[t].status = "done"]
  /\ UNCHANGED <<sess, ret, lock, waiters, calls, rk>>

Cleanup == \E t \in DOMAIN bots.tasks :
  /\ bots.tasks[t].status = "done"
  /\ bots' = cleanup(bots, t)
  /\ UNCHANGED <<sess, ret, lock, waiters, calls, rk>>

NextBots ==
  \/ ScheduleBotRunner
  \/ TaskDone
  \/ Cleanup

SpecBots == Init /\ [][NextBots]_vars

(***************************************************************************)
(* SpecPersist: one round, played card by card, with save_session called   *)
(* at any point of it.                                                     *)
(***************************************************************************)
SaveSession == Handled("save_session", save_session(sess))

NextPersist ==
  \/ AddPlayer
  \/ StartRoundPlay
  \/ PlaceBidPlay
  \/ ChooseTrumpPlay
  \/ PlayFirstAccepted
  \/ SaveSession

SpecPersist == Init /\ [][NextPersist]_vars

(***************************************************************************)
(* SpecBids: place_bid requests of several callers in flight at once.  A   *)
(* request carries its seat and value from the moment it is issued         *)
(* (calls[p].seat, calls[p].val); the players join and the round starts    *)
(* before the first request.                                               *)
(***************************************************************************)
\* the requests holding or queued on the lock, in the order they asked
Pending == (IF lock = None THEN <<>> ELSE <<lock>>) \o waiters

\* a request is made for the seat whose turn it is now or for the seat
\* whose turn it will be once the pending requests are through; it bids
\* the minimum, or the minimum raised by one for every bid made or pending
RequestSeats == {sess.turn, (sess.turn - Len(Pending)) % sess.seats}
RequestVals ==
  {MIN_BID_DEFAULT, MIN_BID_DEFAULT + Cardinality(sess.bids_received) + Len(Pending)}

StartRoundBids == StartRoundOf({LOBBY}, {1}, {0})

RequestBid(p) == \E seat \in RequestSeats, val \in RequestVals :
  /\ At(p, "idle")
  /\ sess.state = BIDDING
  /\ calls' = [calls EXCEPT ![p] = [pc |-> "waiting", op |-> "place_bid",
                                    seat |-> seat, val |-> val]]
  /\ waiters' = Append(waiters, p)
  /\ UNCHANGED <<sess, ret, lock, rk, bots>>

RunBid(p) ==
  /\ Running(p, "place_bid")
  /\ LET r == place_bid_locked(sess, calls[p].seat, calls[p].val)
     IN IF r.need_redeal
          THEN /\ lock = p
               /\ sess' = r.s
               /\ lock' = None
               /\ calls' = [calls EXCEPT ![p].pc = "redeal"]
               /\ UNCHANGED <<ret, waiters, rk, bots>>
          ELSE Release(p, "place_bid", Result(r.s, r.ok, r.msg, r.args))

NextBids ==
  \/ AddPlayer
  \/ StartRoundBids
  \/ \E p \in Callers : RequestBid(p)
  \/ \E p \in Callers : Acquire(p)
  \/ \E p \in Callers : RunBid(p)

SpecBids == InitConc /\ [][NextBids]_vars

(***************************************************************************)
(* Properties.                                                             *)
(***************************************************************************)
\* values a BidCmd can carry: None, -1 or an integer in 14..56 (models.py)
BidCmdValues == PassInputs \cup (MIN_BID_DEFAULT..MAX_BID_56)

TrickCompleteMsg == "Trick complete. Winner: {winner} (+{pts} pts)"

C5_HiddenTrumpNoInfluence ==
  (ret.op = "play_card" /\ ret.ok /\ ret.msg = TrickCompleteMsg) =>
    LET winner == sess.last_trick[1]
        trick == sess.last_trick[2]
        lead == trick[1][2].suit
        won == CHOOSE i \in 1..Len(trick) : trick[i][1] = winner
        wc == trick[won][2]
    IN /\ sess.trump_hidden =>
            /\ wc.suit = lead
            /\ \A i \in 1..Len(trick) :
                 trick[i][2].suit = lead =>
                   NON_TRUMP_RANK_INDEX[trick[i][2].rank]
                     <= NON_TRUMP_RANK_INDEX[wc.rank]
       /\ wc.suit # lead => (~sess.trump_hidden /\ wc.suit = sess.trump)

C5_Witness ==
  /\ ret.op = "play_card" /\ ret.ok /\ ret.msg = TrickCompleteMsg
  /\ sess.trump_hidden
  /\ \E i \in 1..Len(sess.last_trick[2]) :
       /\ sess.last_trick[2][i][2].suit = sess.trump
       /\ sess.last_trick[2][i][2].suit # sess.last_trick[2][1][2].suit

InLock(p) == calls[p].pc \in {"locked", "redeal_locked"}

C2_OneInside ==
  /\ Cardinality({p \in Callers : InLock(p)}) <= 1
  /\ \A p \in Callers : InLock(p) => lock = p

C2_WriteUnderLock ==
  sess' # sess => (lock \in Callers /\ InLock(lock) /\ lock' = None)

\* C2: at most one caller is inside the lock-protected section of a handler
\* at any time, and every write to the session is made by the caller that
\* holds the lock, in the step that ends with its release.
C2_MutualExclusion == []C2_OneInside /\ [][C2_WriteUnderLock]_vars

C2_Witness ==
  /\ \E p \in Callers : InLock(p) /\ calls[p].op = "place_bid"
  /\ \E q \in Callers : calls[q].pc = "waiting" /\ calls[q].op = "place_bid"
  /\ sess.state = BIDDING

InGap(p) == calls[p].pc \in {"redeal", "redeal_waiting"}

C6_BidValidation ==
  sess.state = BIDDING =>
    /\ \A val \in MIN_BID_DEFAULT..MAX_BID_56 :
         LET r == place_bid(sess, sess.turn, val, 0)
             maximum == IF sess.mode = "28" THEN 28 ELSE 56
             valid == /\ sess.min_bid <= val
                      /\ val <= maximum
                      /\ (sess.current_highest = None \/ val > sess.current_highest)
         IN /\ r.ok <=> valid
            /\ r.ok => r.s.bids[sess.turn] = val
    /\ \A seat \in SeatInputs, val \in BidCmdValues :
         LET r == place_bid(sess, seat, val, 0)
         IN ~r.ok => r.s = sess

C6_Witness ==
  /\ sess.state = BIDDING
  /\ ret.op = "place_bid" /\ ~ret.ok
  /\ ret.msg = "Bid must be higher than current highest"
  /\ sess.current_highest = MAX_BID_28 /\ sess.mode = MODE_56
  /\ sess.bids[sess.turn] = None

Unacted(s) == {i \in DOMAIN s.bids : s.bids[i] = None}
Numeric(s) == {i \in DOMAIN s.bids : s.bids[i] \notin {None, PASS}}

BidWon(s) ==
  /\ s.state = CHOOSE_TRUMP
  /\ Unacted(s) = {}
  /\ s.bid_winner \in Numeric(s)
  /\ s.bids[s.bid_winner] = s.bid_value
  /\ \A i \in Numeric(s) : i # s.bid_winner => s.bids[i] < s.bid_value

\* C7: the phase stays BIDDING until every seat has acted; when the last seat
\* acts and some bid is numeric the phase becomes CHOOSE_TRUMP, bid_value is
\* the highest numeric bid and bid_winner the seat that placed it.
C7_BiddingCompletion ==
  /\ sess.state = CHOOSE_TRUMP => BidWon(sess)
  /\ sess.state = BIDDING =>
       \A val \in BidCmdValues :
         LET r == place_bid(sess, sess.turn, val, 0)
         IN r.ok =>
              IF Cardinality(Unacted(sess)) > 1 THEN r.s.state = BIDDING
              ELSE (Numeric(sess) # {} \/ val \notin PassInputs) => BidWon(r.s)

C7_Witness ==
  /\ sess.state = CHOOSE_TRUMP
  /\ ret.op = "place_bid" /\ ret.ok /\ ret.msg = "Bid accepted; bidding complete"
  /\ Cardinality(Numeric(sess)) >= 2
  /\ sess.bids[sess.bid_winner] = sess.bid_value

FreshBidding(s) ==
  /\ s.state = BIDDING
  /\ \A i \in SeatRange(s.seats) :
       /\ Len(s.hands[i]) = Len(make_deck(s.mode, s.two_decks_for_56)) \div s.seats
       /\ Range(s.hands[i]) \subseteq Range(make_deck(s.mode, s.two_decks_for_56))
       /\ s.bids[i] = None
  /\ s.current_highest = None
  /\ s.bid_winner = None
  /\ s.bid_value = None
  /\ s.turn = s.leader

\* C8: when every seat passes the phase does not become CHOOSE_TRUMP; the last
\* seat's place_bid returns success, and when it returns the session is in
\* BIDDING with a fresh deal, every bid None, highest / winner / value cleared
\* and turn = leader.
C8_AllPassRedeal ==
  /\ (ret.op = "place_bid" /\ ret.msg = "All passed: redealt") =>
       (ret.ok /\ FreshBidding(sess))
  /\ (sess.state = BIDDING /\ Unacted(sess) = {sess.turn} /\ Numeric(sess) = {}) =>
       \A val \in PassInputs, stream \in Streams :
         LET r == place_bid(sess, sess.turn, val, stream)
         IN r.ok /\ FreshBidding(r.s)

C8_Witness ==
  /\ ret.op = "place_bid" /\ ret.ok /\ ret.msg = "All passed: redealt"
  /\ sess.state = BIDDING
  /\ \A i \in SeatRange(Seats) : sess.bids[i] = None

DealerInputs == 0..(Seats + 2)

RoundStarted(s) ==
  /\ s.state = BIDDING
  /\ s.leader = (s.current_dealer + s.seats - 1) % s.seats
  /\ s.turn = s.leader
  /\ \A i \in SeatRange(s.seats) : s.bids[i] = None /\ s.points_by_seat[i] = 0
  /\ s.current_highest = None /\ s.bid_winner = None /\ s.bid_value = None
  /\ s.trump = NoSuit /\ s.trump_hidden /\ s.trump_owner = None
  /\ s.current_trick = <<>> /\ s.last_trick = <<>> /\ s.captured_tricks = <<>>

\* C9: after start_round, from any phase and with any dealer argument,
\* phase = BIDDING, leader = (dealer - 1) mod seats for the dealer of the
\* round just started (current_dealer), turn = leader, every bid
\* is None, highest / winner / value are unset, trump is unset and hidden with
\* no chooser, current trick, last trick and captured tricks are empty and
\* every seat has 0 points.
C9_StartRoundPostState ==
  /\ ret.op = "start_round" => RoundStarted(sess)
  /\ \A dealer \in DealerInputs, stream \in Streams :
       RoundStarted(start_round(sess, dealer, stream).s)

C9_Witness ==
  /\ ret.op = "start_round"
  /\ sess.state = BIDDING
  /\ sess.rounds_history # <<>>
  /\ sess.current_dealer # 0

\* C10: the first start_round of a session sets the dealer to its argument;
\* a start_round after a round that reached SCORING sets the dealer to
\* (previous dealer + 1) mod seats whatever the argument, and the leader to
\* (new dealer - 1) mod seats.
C10_DealerRotation ==
  /\ sess.state = LOBBY =>
       \A dealer \in DealerInputs, stream \in Streams :
         start_round(sess, dealer, stream).s.current_dealer = dealer
  /\ sess.state = SCORING =>
       \A dealer \in DealerInputs, stream \in Streams :
         LET n == start_round(sess, dealer, stream).s
         IN /\ n.current_dealer = (sess.current_dealer + 1) % sess.seats
            /\ n.leader = (n.current_dealer + sess.seats - 1) % sess.seats

C10_Witness ==
  /\ ret.op = "start_round"
  /\ Len(sess.rounds_history) >= 2
  /\ Len(sess.rounds_history[Len(sess.rounds_history)].captured_tricks)
       = Len(sess.deck) \div Seats
  /\ sess.current_dealer =
       (sess.rounds_history[Len(sess.rounds_history)].dealer + 1) % Seats

RankLowToHigh == <<"7", "8", "Q", "K", "10", "A", "9", "J">>
RankOf(card) == CHOOSE i \in 1..Len(RankLowToHigh) : RankLowToHigh[i] = card.rank

\* C4: for a non-empty trick and an optional visible trump, the winner is the
\* seat of the highest trump card if a trump card was played, else of the
\* highest card of the lead suit; ranks run 7, 8, Q, K, 10, A, 9, J from low
\* to high for trump and non-trump alike, and of equal ranks the one played
\* first wins.
C4_TrickWinner ==
  rk.trick # <<>> =>
    LET trick == rk.trick
        lead == trick[1][2].suit
        trumped == rk.trump # NoSuit /\ \E i \in 1..Len(trick) : trick[i][2].suit = rk.trump
        Candidate(i) == IF trumped THEN trick[i][2].suit = rk.trump
                        ELSE trick[i][2].suit = lead
        Best(i) == /\ Candidate(i)
                   /\ \A j \in 1..Len(trick) :
                        Candidate(j) =>
                          \/ RankOf(trick[j][2]) < RankOf(trick[i][2])
                          \/ RankOf(trick[j][2]) = RankOf(trick[i][2]) /\ i <= j
    IN \E i \in 1..Len(trick) : Best(i) /\ rk.winner = trick[i][1]

C4_Witness ==
  /\ Len(rk.trick) = 3
  /\ rk.trump # NoSuit /\ rk.trump # rk.trick[1][2].suit
  /\ rk.trick[2][2].suit = rk.trump /\ rk.trick[3][2] = rk.trick[2][2]
  /\ rk.trick[1][2].rank = "J" /\ rk.trick[2][2].rank = "9"
  /\ rk.winner = rk.trick[2][1]

(***************************************************************************)
(* Trump choice, manual reveal and play (session.py 298-498).              *)
(***************************************************************************)
FourSuits == {"S", "H", "D", "C"}
SuitInputs == FourSuits \cup {"X", NoSuit}

\* C11: choose_trump succeeds only in CHOOSE_TRUMP, only for the bid winner
\* and only with one of the four suits; on success trump = suit, trump is
\* hidden, the chooser is the seat, phase = PLAY and turn = leader, the
\* leader start_round set; any other call returns failure, does not raise
\* and leaves the session as it was.
C11_ChooseTrump ==
  /\ \A seat \in SeatInputs, suit \in SuitInputs :
       LET r == choose_trump(sess, seat, suit)
       IN /\ ~r.raised
          /\ r.ok <=> /\ sess.state = CHOOSE_TRUMP
                      /\ seat = sess.bid_winner
                      /\ suit \in FourSuits
          /\ r.ok => r.s = [sess EXCEPT !.trump = suit, !.trump_hidden = TRUE,
                                        !.trump_owner = seat, !.state = PLAY,
                                        !.turn = sess.leader]
          /\ ~r.ok => r.s = sess
  /\ sess.state \in {BIDDING, CHOOSE_TRUMP} =>
       sess.leader = (sess.current_dealer + sess.seats - 1) % sess.seats

C11_Witness ==
  /\ ret.op = "choose_trump" /\ ret.ok
  /\ sess.state = PLAY /\ sess.trump \in FourSuits /\ sess.trump_hidden
  /\ sess.trump_owner = sess.bid_winner /\ sess.trump_owner # sess.leader
  /\ sess.turn = sess.leader /\ sess.current_trick = <<>>

\* C12: reveal_trump(seat) succeeds iff the phase is PLAY, the seat is a
\* known player, trump is hidden, seat = turn, the current trick has at
\* least one card and the seat's hand holds no card of the lead suit; on
\* success only trump_hidden changes, to false; a failing call changes
\* nothing.
C12_ManualReveal ==
  \A seat \in SeatInputs :
    LET r == reveal_trump(sess, seat)
        may == /\ sess.state = PLAY
               /\ seat \in sess.players
               /\ sess.trump_hidden
               /\ seat = sess.turn
               /\ Len(sess.current_trick) >= 1
               /\ \A i \in 1..Len(sess.hands[seat]) :
                    sess.hands[seat][i].suit # sess.current_trick[1][2].suit
    IN /\ ~r.raised
       /\ r.ok <=> may
       /\ r.ok => r.s = [sess EXCEPT !.trump_hidden = FALSE]
       /\ ~r.ok => r.s = sess

C12_Witness ==
  /\ ret.op = "reveal_trump" /\ ret.ok
  /\ sess.state = PLAY /\ ~sess.trump_hidden
  /\ Len(sess.current_trick) >= 1
  /\ sess.hands[sess.turn] # <<>>
  /\ \A i \in 1..Len(sess.hands[sess.turn]) :
       sess.hands[sess.turn][i].suit # sess.current_trick[1][2].suit

\* C13: a play_card by the turn seat in PLAY is rejected, the session
\* unchanged, if the card id is not in the seat's hand, or if the current
\* trick has a lead suit, the seat holds a card of that suit and the chosen
\* card is of another suit; every other card of the hand is accepted.
C13_PlayLegality ==
  sess.state = PLAY =>
    \A card_id \in AllCardIds(sess) :
      LET hand == sess.hands[sess.turn]
          r == play_card(sess, sess.turn, card_id)
          held == {i \in 1..Len(hand) : hand[i].uid = card_id}
          lead == sess.current_trick[1][2].suit
          off_suit == /\ sess.current_trick # <<>>
                      /\ \E j \in 1..Len(hand) : hand[j].suit = lead
                      /\ \A i \in held : hand[i].suit # lead
      IN /\ ~r.raised
         /\ r.ok <=> (held # {} /\ ~off_suit)
         /\ ~r.ok => r.s = sess

C13_Witness ==
  /\ ret.op = "play_card" /\ ~ret.ok /\ ret.msg = "Must follow suit if possible"
  /\ sess.state = PLAY /\ sess.current_trick # <<>>
  /\ \E i, j \in 1..Len(sess.hands[sess.turn]) :
       /\ sess.hands[sess.turn][i].suit = sess.current_trick[1][2].suit
       /\ sess.hands[sess.turn][j].suit # sess.current_trick[1][2].suit

PointValue(rank) ==
  CASE rank = "J" -> 3
    [] rank = "9" -> 2
    [] rank \in {"A", "10"} -> 1
    [] OTHER -> 0

TrickValue(trick) == SumSeq([i \in 1..Len(trick) |-> PointValue(trick[i][2].rank)])

ArchivedNow(s) ==
  LET rec == s.rounds_history[Len(s.rounds_history)]
  IN /\ rec.round_number = Len(s.rounds_history)
     /\ Len(rec.captured_tricks) = Len(s.captured_tricks)
     /\ \A i \in 1..Len(s.captured_tricks) :
          /\ rec.captured_tricks[i].winner = s.captured_tricks[i][1]
          /\ rec.captured_tricks[i].cards = s.captured_tricks[i][2]
     /\ rec.points_by_seat = s.points_by_seat
     /\ rec.bid_winner = s.bid_winner /\ rec.bid_value = s.bid_value
     /\ rec.trump = s.trump

\* C15: the phase becomes SCORING exactly when a play resolves a trick and
\* leaves every hand empty, and the round is appended to rounds_history in
\* that step; while a hand is non-empty the phase stays PLAY; in SCORING
\* every place_bid, choose_trump, play_card and reveal_trump fails and
\* changes nothing.
C15_RoundEnd ==
  /\ sess.state = PLAY =>
       /\ \E i \in SeatRange(sess.seats) : sess.hands[i] # <<>>
       /\ \A card_id \in AllCardIds(sess) :
            LET r == play_card(sess, sess.turn, card_id)
                n == r.s
                resolved == Len(sess.current_trick) + 1 = sess.seats
                empty == \A i \in SeatRange(sess.seats) : n.hands[i] = <<>>
            IN r.ok =>
                 IF resolved /\ empty
                   THEN /\ n.state = SCORING
                        /\ Len(n.rounds_history) = Len(sess.rounds_history) + 1
                        /\ ArchivedNow(n)
                   ELSE /\ n.state = PLAY
                        /\ n.rounds_history = sess.rounds_history
  /\ sess.state = SCORING =>
       /\ \A i \in SeatRange(sess.seats) : sess.hands[i] = <<>>
       /\ sess.current_trick = <<>>
       /\ \A seat \in SeatInputs :
            /\ \A val \in BidCmdValues, stream \in Streams :
                 LET r == place_bid(sess, seat, val, stream)
                 IN ~r.ok /\ r.s = sess
            /\ \A suit \in SuitInputs :
                 LET r == choose_trump(sess, seat, suit) IN ~r.ok /\ r.s = sess
            /\ \A card_id \in AllCardIds(sess) :
                 LET r == play_card(sess, seat, card_id) IN ~r.ok /\ r.s = sess
            /\ LET r == reveal_trump(sess, seat) IN ~r.ok /\ r.s = sess

C15_Witness ==
  /\ ret.op = "play_card" /\ ret.ok /\ ret.msg = TrickCompleteMsg
  /\ sess.state = SCORING
  /\ Len(sess.captured_tricks) = Len(sess.deck) \div sess.seats
  /\ Len(sess.rounds_history) = 1
  /\ ArchivedNow(sess)

(***************************************************************************)
(* Scoring (session.py 500-519).                                           *)
(***************************************************************************)
RECURSIVE ParityPoints(_, _, _)
ParityPoints(pts, n, k) ==
  IF n = 0 THEN 0
  ELSE ParityPoints(pts, n - 1, k) + (IF (n - 1) % 2 = k THEN pts[n - 1] ELSE 0)

C16_Scores ==
  ret.op = "compute_scores" =>
    LET out == ret.args[1]
        w == sess.bid_winner
        v == sess.bid_value
    IN /\ out.team_points[0] = ParityPoints(sess.points_by_seat, sess.seats, 0)
       /\ out.team_points[1] = ParityPoints(sess.points_by_seat, sess.seats, 1)
       /\ IF w = None \/ v = None
            THEN out.bid_outcome = <<>>
            ELSE /\ Len(out.bid_outcome) = 1
                 /\ out.bid_outcome[1].bid_winner = w
                 /\ out.bid_outcome[1].bid_value = v
                 /\ out.bid_outcome[1].winning_team = w % 2
                 /\ out.bid_outcome[1].success <=> out.team_points[w % 2] >= v

C16_Frame == ret'.op = "compute_scores" => sess' = sess

\* C16: compute_scores changes no session state and returns team_points[0]
\* = points of the even seats, team_points[1] = points of the odd seats;
\* bid_outcome is None when bid winner or bid value is unset, otherwise
\* winning_team = bid_winner mod 2 and success iff that team's points are
\* >= bid_value.
C16_ComputeScores == []C16_Scores /\ [][C16_Frame]_vars

C16_Witness ==
  /\ ret.op = "compute_scores"
  /\ ret.args[1].bid_outcome # <<>>
  /\ ret.args[1].bid_outcome[1].success
  /\ ret.args[1].bid_outcome[1].winning_team = 1
  /\ ret.args[1].team_points[1] = sess.bid_value
  /\ ret.args[1].team_points[0] > sess.bid_value

(***************************************************************************)
(* Seat assignment under concurrent callers (session.py 79-94).            *)
(***************************************************************************)
C17_Seats ==
  /\ sess.players \subseteq SeatRange(sess.seats)
  /\ Cardinality(sess.players) <= sess.seats

\* the step in which a caller's add_player runs and returns
AddPlayerReturns ==
  \E p \in Callers : Running(p, "add_player") /\ calls'[p] = Idle

C17_Assigned ==
  AddPlayerReturns =>
    /\ ret'.op = "add_player"
    /\ IF ret'.raised
         THEN /\ sess' = sess
              /\ ret'.msg = "No free seats" => sess.players = SeatRange(sess.seats)
         ELSE LET seat == ret'.args[1]
              IN /\ seat \in SeatRange(sess.seats)
                 /\ seat \notin sess.players
                 /\ \A g \in 0..(seat - 1) : g \in sess.players
                 /\ sess' = [sess EXCEPT !.players = @ \cup {seat}]
    /\ sess.players = SeatRange(sess.seats) => ret'.raised

\* a seat handed out stays taken until a remove_player returns
C17_Kept ==
  (sess'.players # sess.players) =>
    \/ AddPlayerReturns
    \/ \E p \in Callers : Running(p, "remove_player") /\ calls'[p] = Idle

\* C17: add_player assigns the lowest free seat; the calls of concurrent
\* callers run one after the other and each gets a seat that was free, so
\* their seats are pairwise distinct and within 0..seats-1; with every seat
\* taken add_player raises and leaves the players unchanged, so the number
\* of players never exceeds the seat count.
C17_SeatAssignment == []C17_Seats /\ [][C17_Assigned /\ C17_Kept]_vars

C17_Witness ==
  /\ ret.op = "add_player" /\ ret.raised /\ ret.msg = "No free seats"
  /\ sess.players = SeatRange(Seats)
  /\ \E q \in Callers : calls[q] = [pc |-> "waiting", op |-> "add_player"]

NotLegal(r) == ~r.ok /\ ~r.raised /\ r.s = sess

\* C18: place_bid outside BIDDING, choose_trump outside CHOOSE_TRUMP, and
\* play_card or reveal_trump outside PLAY return failure, never raise and
\* leave the whole session unchanged, whatever the seat and the arguments.
C18_PhaseLegality ==
  \A seat \in SeatInputs :
    /\ sess.state # BIDDING =>
         \A val \in BidCmdValues, stream \in Streams :
           NotLegal(place_bid(sess, seat, val, stream))
    /\ sess.state # CHOOSE_TRUMP =>
         \A suit \in SuitInputs : NotLegal(choose_trump(sess, seat, suit))
    /\ sess.state # PLAY =>
         /\ \A card_id \in AllCardIds(sess) : NotLegal(play_card(sess, seat, card_id))
         /\ NotLegal(reveal_trump(sess, seat))

C18_Witness ==
  /\ sess.state = CHOOSE_TRUMP
  /\ ret.op = "play_card" /\ ~ret.ok /\ ~ret.raised /\ ret.msg = "Not in play phase"
  /\ sess.hands[sess.turn] # <<>>

DeckSize(s) == Len(make_deck(s.mode, s.two_decks_for_56))

Dealt(s) ==
  /\ Len(s.deck) = DeckSize(s)
  /\ \A seat \in SeatRange(s.seats) : Len(s.hands[seat]) = DeckSize(s) \div s.seats
  /\ Len(s.kitty) = DeckSize(s) % s.seats
  /\ SumSeq([k \in 1..s.seats |-> Len(s.hands[k - 1])]) + Len(s.kitty) = DeckSize(s)

JustDealt ==
  \/ ret.op = "start_round"
  \/ ret.op = "place_bid" /\ ret.msg = "All passed: redealt"

\* C19: immediately after every deal (start_round or the redeal after all
\* seats passed), for every seat count and mode, every hand has deck_size
\* div seats cards, the kitty has deck_size mod seats cards, and the hand
\* sizes plus the kitty size add up to the deck size.
C19_DealConservation ==
  /\ JustDealt => Dealt(sess)
  /\ \A dealer \in DealerInputs, stream \in Streams :
       Dealt(start_round(sess, dealer, stream).s)

C19_Witness ==
  /\ ret.op = "place_bid" /\ ret.msg = "All passed: redealt"
  /\ sess.kitty # <<>>
  /\ sess.mode = MODE_28
  /\ \A seat \in SeatRange(sess.seats) : sess.hands[seat] # <<>>

CardsInHands(s) == SumSeq([k \in 1..s.seats |-> Len(s.hands[k - 1])])

CardsInTricks(s) ==
  Len(s.current_trick)
    + SumSeq([i \in 1..Len(s.captured_tricks) |-> Len(s.captured_tricks[i][2])])

\* C20 as stated: in every reachable state the hand sizes plus the kitty
\* size equal the deck size.  play_card takes the card out of the hand and
\* the deck keeps every card, so this fails from the first accepted play.
C20_HandsKittyDeck ==
  CardsInHands(sess) + Len(sess.kitty) = Len(sess.deck)

\* C20: in every reachable state the hand sizes, the kitty size, the cards
\* of the current trick and the cards of the round's captured tricks add up
\* to the deck size; before the first play of a round the hands and the
\* kitty alone make up the deck.
C20_CardsAccounted ==
  /\ CardsInHands(sess) + Len(sess.kitty) + CardsInTricks(sess) = Len(sess.deck)
  /\ CardsInTricks(sess) = 0 => CardsInHands(sess) + Len(sess.kitty) = Len(sess.deck)

C20_Witness ==
  /\ sess.state = PLAY
  /\ ret.op = "play_card" /\ ret.ok
  /\ sess.captured_tricks # <<>> /\ sess.current_trick # <<>>
  /\ CardsInHands(sess) + Len(sess.kitty) < Len(sess.deck)

\* C21: in every reachable state trump is unset, set and hidden, or set and
\* revealed: trump_hidden is never false while no trump suit is set, and
\* every PLAY and SCORING state has a trump suit, chosen by the bid winner.
C21_TrumpTriState ==
  /\ sess.trump \in FourSuits \cup {NoSuit}
  /\ sess.trump_hidden \in BOOLEAN
  /\ sess.trump = NoSuit => sess.trump_hidden
  /\ sess.state \in {PLAY, SCORING} =>
       sess.trump \in FourSuits /\ sess.trump_owner = sess.bid_winner
  /\ sess.state \in {LOBBY, BIDDING, CHOOSE_TRUMP} =>
       sess.trump = NoSuit /\ sess.trump_owner = None
  /\ \A seat \in SeatInputs :
       LET n == reveal_trump(sess, seat).s
       IN n.trump = sess.trump /\ (n.trump = NoSuit => n.trump_hidden)

C21_Witness ==
  /\ sess.state = PLAY /\ ret.op = "reveal_trump" /\ ret.ok
  /\ sess.trump \in FourSuits /\ ~sess.trump_hidden
  /\ sess.hidden_trump_mode = ON_FIRST_TRUMP_PLAY

\* the card an accepted play_card step put on the table
PlayedCard ==
  IF sess'.current_trick # <<>>
    THEN sess'.current_trick[Len(sess'.current_trick)][2]
    ELSE sess'.last_trick[2][Len(sess'.last_trick[2])][2]

AcceptedPlay == ret'.op = "play_card" /\ ret'.ok

FirstTrumpPlay ==
  /\ AcceptedPlay
  /\ sess.trump_hidden
  /\ PlayedCard.suit = sess.trump

Dealing ==
  \/ ret'.op = "start_round"
  \/ ret'.op = "place_bid" /\ ret'.msg = "All passed: redealt"

\* C22 as stated: under ON_FIRST_TRUMP_PLAY trump_hidden is true in every
\* state of the round before the first accepted play of a trump card, turns
\* false on that play and stays false until the next start_round.  An
\* accepted reveal_trump turns it false earlier.
C22_OnlyTrumpPlayReveals ==
  [][sess.hidden_trump_mode = ON_FIRST_TRUMP_PLAY =>
       /\ (sess.trump_hidden /\ ~sess'.trump_hidden) <=> FirstTrumpPlay
       /\ (~sess.trump_hidden /\ sess'.trump_hidden) => Dealing]_vars

ManualReveal == ret'.op = "reveal_trump" /\ ret'.ok

\* C22: under ON_FIRST_TRUMP_PLAY an accepted play leaves trump hidden iff
\* trump was hidden and the card is not of the trump suit, so play reveals
\* trump exactly on the first accepted play of a trump card; before that
\* play trump_hidden turns false only by an accepted reveal_trump, and once
\* false it stays false until the next start_round.
C22_FirstTrumpPlay ==
  [][sess.hidden_trump_mode = ON_FIRST_TRUMP_PLAY =>
       /\ AcceptedPlay =>
            sess'.trump_hidden = (sess.trump_hidden /\ PlayedCard.suit # sess.trump)
       /\ (sess.trump_hidden /\ ~sess'.trump_hidden) =>
            (FirstTrumpPlay \/ (ManualReveal /\ sess.state = PLAY))
       /\ (~sess.trump_hidden /\ sess'.trump_hidden) => Dealing]_vars

C22_Witness ==
  /\ sess.hidden_trump_mode = ON_FIRST_TRUMP_PLAY
  /\ ret.op = "play_card" /\ ret.ok
  /\ ~sess.trump_hidden
  /\ Len(sess.current_trick) = 2
  /\ sess.current_trick[1][2].suit # sess.trump
  /\ sess.current_trick[2][2].suit = sess.trump
  /\ sess.captured_tricks = <<>>

\* the reveal rule of each mode, on the trick before the card and the hand
\* before the card left it
NonFollow(card, trick, hand) ==
  /\ trick # <<>>
  /\ \E i \in 1..Len(hand) : hand[i].suit = trick[1][2].suit
  /\ card.suit # trick[1][2].suit

ModeRule(mode, card, trump, owner, seat, trick, hand) ==
  CASE mode = OPEN_IMMEDIATELY -> TRUE
    [] mode = ON_FIRST_TRUMP_PLAY -> card.suit = trump
    [] mode = ON_FIRST_NONFOLLOW -> NonFollow(card, trick, hand)
    [] mode = ON_BIDDER_NONFOLLOW -> seat = owner /\ NonFollow(card, trick, hand)

\* C23: after an accepted play while trump is set and hidden, trump is
\* revealed iff the rule of the session's mode holds on the trick as it was
\* before the card and the hand as it was before removal; a play while
\* trump is revealed leaves it revealed.  The policy itself, for every mode,
\* chooser and card of the turn seat's hand: it answers the mode's rule
\* when trump is set and hidden, and no when trump is revealed or unset.
C23_RevealPolicy ==
  sess.state = PLAY =>
    LET seat == sess.turn
        hand == sess.hands[seat]
        trick == sess.current_trick
    IN \A k \in 1..Len(hand) :
         /\ LET r == play_card(sess, seat, hand[k].uid)
            IN r.ok =>
                 r.s.trump_hidden =
                   (sess.trump_hidden /\
                      ~ModeRule(sess.hidden_trump_mode, hand[k], sess.trump,
                                sess.trump_owner, seat, trick, hand))
         /\ \A mode \in HiddenTrumpMode, owner \in {seat, (seat + 1) % sess.seats} :
              /\ should_reveal_trump(TRUE, mode, hand[k], sess.trump, owner, seat, trick, hand)
                   = ModeRule(mode, hand[k], sess.trump, owner, seat, trick, hand)
              /\ ~should_reveal_trump(FALSE, mode, hand[k], sess.trump, owner, seat, trick, hand)
              /\ ~should_reveal_trump(TRUE, mode, hand[k], NoSuit, owner, seat, trick, hand)

C23_Witness ==
  /\ sess.state = PLAY
  /\ sess.hidden_trump_mode = ON_FIRST_NONFOLLOW
  /\ sess.trump_hidden
  /\ ret.op = "play_card" /\ ret.ok
  /\ \E k \in 1..Len(sess.hands[sess.turn]) :
       /\ NonFollow(sess.hands[sess.turn][k], sess.current_trick, sess.hands[sess.turn])
       /\ should_reveal_trump(TRUE, ON_FIRST_NONFOLLOW, sess.hands[sess.turn][k], sess.trump, sess.trump_owner, sess.turn, sess.current_trick, sess.hands[sess.turn])
       /\ ~play_card(sess, sess.turn, sess.hands[sess.turn][k].uid).ok

Reversed(q) == [k \in 1..Len(q) |-> q[Len(q) + 1 - k]]

\* other hands of the same sizes: every hand reversed, or every card of
\* every hand replaced by one card of the deck
HandVariants(s) ==
  {[i \in SeatRange(s.seats) |-> Reversed(s.hands[i])]}
    \cup {[i \in SeatRange(s.seats) |-> [k \in 1..Len(s.hands[i]) |-> c]] : c \in Range(s.deck)}

\* C24: get_public_state reports no trump while trump is hidden and the
\* trump suit once it is revealed, reports the hand sizes, and is the same
\* for two sessions that differ only in the cards of the hands (same sizes)
\* and, while trump is hidden, in the trump suit.
C24_PublicState ==
  LET dto == get_public_state(sess)
  IN /\ dto.trump = IF sess.trump_hidden THEN NoSuit ELSE sess.trump
     /\ \A seat \in SeatRange(sess.seats) : dto.hand_sizes[seat] = Len(sess.hands[seat])
     /\ \A h \in HandVariants(sess) :
          /\ get_public_state([sess EXCEPT !.hands = h]) = dto
          /\ sess.trump_hidden =>
               \A suit \in FourSuits :
                 get_public_state([sess EXCEPT !.hands = h, !.trump = suit]) = dto
     /\ ret.op = "get_public_state" => ret.args[1] = dto

C24_Witness ==
  /\ ret.op = "get_public_state"
  /\ sess.state = PLAY
  /\ sess.trump_hidden /\ sess.trump \in FourSuits
  /\ ret.args[1].trump = NoSuit
  /\ sess.current_trick # <<>>
  /\ \E h \in HandVariants(sess) : h # sess.hands

Unfinished(g) == {t \in DOMAIN bots.tasks : bots.tasks[t].game = g /\ bots.tasks[t].status = "running"}

C25_OneLoop ==
  \A g \in Games :
    /\ Cardinality(Unfinished(g)) <= 1
    /\ \A t \in Unfinished(g) : bots.bot_tasks[g] = t
    /\ LET b == schedule_bot_runner(bots, g)
       IN IF Unfinished(g) # {}
            THEN b = bots
            ELSE /\ Len(b.tasks) = Len(bots.tasks) + 1
                 /\ b.tasks[Len(b.tasks)] = [game |-> g, status |-> "running"]
                 /\ b.bot_tasks[g] = Len(b.tasks)

C25_OwnEntry ==
  \A g \in Games :
    bots'.bot_tasks[g] # bots.bot_tasks[g] =>
      \/ /\ bots'.bot_tasks[g] = None
         /\ bots.tasks[bots.bot_tasks[g]].status = "done"
         /\ bots'.tasks[bots.bot_tasks[g]].status = "cleaned"
      \/ /\ bots'.bot_tasks[g] = Len(bots.tasks) + 1
         /\ Len(bots'.tasks) = Len(bots.tasks) + 1
         /\ ~unfinished(bots, bots.bot_tasks[g])

\* C25: schedule_bot_runner starts a runner only if no unfinished runner is
\* registered for the game and otherwise changes nothing; whatever the
\* order of schedule requests, task completions and done callbacks, a game
\* never has two unfinished runners, every unfinished runner is the one
\* registered, and a done callback removes only its own task's entry.
C25_SingleBotLoop == []C25_OneLoop /\ [][C25_OwnEntry]_vars

C25_Witness ==
  \E g \in Games : \E t1, t2 \in DOMAIN bots.tasks :
    /\ bots.tasks[t1] = [game |-> g, status |-> "cleaned"]
    /\ bots.tasks[t2] = [game |-> g, status |-> "running"]
    /\ t1 < t2
    /\ bots.bot_tasks[g] = t2
    /\ \E t3 \in DOMAIN bots.tasks : t3 > t2 /\ bots.tasks[t3].game # g

SameGameplay(n, s) ==
  /\ n.hands = s.hands /\ n.kitty = s.kitty
  /\ n.current_trick = s.current_trick /\ n.captured_tricks = s.captured_tricks
  /\ n.bids = s.bids /\ n.current_highest = s.current_highest
  /\ n.bid_winner = s.bid_winner /\ n.bid_value = s.bid_value
  /\ n.trump = s.trump /\ n.trump_hidden = s.trump_hidden
  /\ n.leader = s.leader /\ n.turn = s.turn /\ n.state = s.state
  /\ n.points_by_seat = s.points_by_seat

\* C26: in every reachable state, serializing the session's full state
\* succeeds and reconstructing a session from the snapshot reproduces the
\* hands, kitty, current trick, captured tricks, bids, highest bid, bid
\* winner, trump suit and visibility, leader, turn, phase and points.
C26_RoundTrip ==
  LET snap == _serialize_full_state(sess)
  IN /\ ~snap.raised
     /\ SameGameplay(_deserialize_full_state(snap.args[1]), sess)
     /\ ret.op = "save_session" => ret.ok

\* the session after the requests q (callers, with their arguments in c)
\* are made one after the other, each returning before the next is made
RECURSIVE SeqBids(_, _, _)
SeqBids(s, q, c) ==
  IF q = <<>> THEN s
  ELSE SeqBids(place_bid(s, c[Head(q)].seat, c[Head(q)].val, 0).s, Tail(q), c)

RECURSIVE SeqAllOk(_, _, _)
SeqAllOk(s, q, c) ==
  \/ q = <<>>
  \/ LET r == place_bid(s, c[Head(q)].seat, c[Head(q)].val, 0)
     IN r.ok /\ ~r.raised /\ SeqAllOk(r.s, Tail(q), c)

\* the requests q are for the seats turn, turn-1, ... with values rising
\* strictly from above the highest bid and the minimum
InTurnOrder(s, q, c) ==
  \A i \in 1..Len(q) :
    /\ c[q[i]].seat = (s.turn - (i - 1)) % s.seats
    /\ s.bids[c[q[i]].seat] = None
    /\ c[q[i]].val >= s.min_bid /\ c[q[i]].val <= MAX_BID_28
    /\ IF i = 1
         THEN s.current_highest # None => c[q[i]].val > s.current_highest
         ELSE c[q[i]].val > c[q[i - 1]].val

C27_TurnOrderSucceeds ==
  (sess.state = BIDDING /\ InTurnOrder(sess, Pending, calls)) =>
    SeqAllOk(sess, Pending, calls)

C27_Granted ==
  \A p \in Callers :
    (lock' = p /\ lock # p) => (lock = None /\ waiters # <<>> /\ Head(waiters) = p)

C27_Applied ==
  \A p \in Callers :
    (Running(p, "place_bid") /\ calls'[p].pc = "idle") =>
      LET r == place_bid(sess, calls[p].seat, calls[p].val, 0)
      IN /\ p = Head(Pending)
         /\ sess' = r.s /\ ret'.op = "place_bid"
         /\ ret'.ok = r.ok /\ ret'.msg = r.msg /\ ~ret'.raised
         /\ calls[p].seat # sess.turn =>
              /\ ~ret'.ok /\ sess' = sess
              /\ (sess.state = BIDDING /\ calls[p].seat \in sess.players) =>
                   ret'.msg = "Not your turn to bid"

C27_SameAsSequential ==
  (Pending # <<>> \/ Pending' # <<>>) =>
    IF Len(Pending') > Len(Pending)
      THEN LET p == Pending'[Len(Pending')]
           IN /\ SubSeq(Pending', 1, Len(Pending)) = Pending
              /\ SeqBids(sess', Pending', calls')
                   = place_bid(SeqBids(sess, Pending, calls), calls'[p].seat, calls'[p].val, 0).s
      ELSE SeqBids(sess', Pending', calls') = SeqBids(sess, Pending, calls)

\* C27: concurrent place_bid requests get the lock in the order they asked
\* for it and are applied one at a time, each as the same call would act on
\* the session alone, so the session always ends as if the pending requests
\* were made one after the other in that order; requests pending in turn
\* order with strictly rising values all succeed; a request applied when
\* it is not its seat's turn fails and changes nothing, with "Not your turn
\* to bid" while the session is in BIDDING.
C27_LinearizedBids ==
  []C27_TurnOrderSucceeds /\ [][C27_Granted /\ C27_Applied /\ C27_SameAsSequential]_vars

C27_Witness ==
  /\ Len(Pending) = NumCallers
  /\ lock # None
  /\ InTurnOrder(sess, Pending, calls)
  /\ sess.bids_received # {}
  /\ ret.op = "place_bid" /\ ret.ok

Acted(s) == DOMAIN s.bids \ Unacted(s)

\* the first k seats of the rotation leader, leader-1, leader-2, ...
Rotation(s, k) == {(s.leader - j) % s.seats : j \in 0..(k - 1)}

C28_RotationPrefix ==
  sess.state \in {BIDDING, CHOOSE_TRUMP} =>
    LET k == Cardinality(Acted(sess))
    IN /\ Acted(sess) = Rotation(sess, k)
       /\ sess.turn = (sess.leader - k) % sess.seats
       /\ sess.bids_received = Acted(sess)

C28_OncePerSeat ==
  sess.state = BIDDING =>
    \A seat \in SeatRange(sess.seats) \cup {Seats}, val \in BidCmdValues :
      LET r == place_bid_locked(sess, seat, val)
      IN /\ r.ok => /\ seat = (sess.leader - Cardinality(Acted(sess))) % sess.seats
                    /\ sess.bids[seat] = None
                    /\ Acted(r.s) = Acted(sess) \cup {seat}
                    /\ \A i \in Acted(sess) : r.s.bids[i] = sess.bids[i]
         /\ (seat \in Acted(sess) => ~r.ok /\ r.s = sess)

\* a returned place_bid that was accepted without a redeal recorded the bid
\* of the seat next in the rotation and of no other seat
C28_AcceptedInOrder ==
  (ret'.op = "place_bid" /\ ret'.ok /\ ret'.msg # "All passed: redealt"
     /\ sess.state = BIDDING) =>
    LET k == Cardinality(Acted(sess))
        seat == (sess.leader - k) % sess.seats
    IN /\ sess.bids[seat] = None /\ sess'.bids[seat] # None
       /\ \A i \in DOMAIN sess.bids : i # seat => sess'.bids[i] = sess.bids[i]
       /\ sess'.turn = (sess.leader - (k + 1)) % sess.seats
       /\ sess'.leader = sess.leader

GameActionsRejected(s) ==
  \A seat \in SeatRange(s.seats) \cup {Seats} :
    /\ \A val \in BidCmdValues :
         LET r == place_bid_locked(s, seat, val) IN ~r.ok /\ r.s = s
    /\ \A suit \in Range(Suit) :
         LET r == choose_trump(s, seat, suit) IN ~r.ok /\ r.s = s
    /\ LET r == reveal_trump(s, seat) IN ~r.ok /\ r.s = s
    /\ \A card_id \in CardIdInputs(s, seat) :
         LET r == play_card(s, seat, card_id) IN ~r.ok /\ r.s = s

PassedOut(s) ==
  /\ s.state = BIDDING
  /\ \A i \in DOMAIN s.bids : s.bids[i] = PASS

C29_PassedOutClosed == PassedOut(sess) => GameActionsRejected(sess)

\* a bid was accepted while the redeal of another caller was still to run
C29_BidInGap ==
  /\ \E p \in Callers : InGap(p)
  /\ ret.op = "place_bid" /\ ret.ok /\ ret.msg = "Bid accepted"
  /\ sess.bids_received # {}

Redealt == ret'.op = "place_bid" /\ ret'.ok /\ ret'.msg = "All passed: redealt"

\* C30 as stated: after an all-pass redeal the dealer, and with it the leader
\* and the first bidder, are the same as in the passed-out round, for every
\* dealer value.
C30_RedealKeepsDealer ==
  [][Redealt => /\ sess'.current_dealer = sess.current_dealer
                /\ sess'.leader = sess.leader
                /\ sess'.turn = sess.leader]_vars

\* what the redeal does: start_round() runs with its default dealer and no
\* captured trick, so the dealer of the new round is seat 0
C30_RedealDealerZero ==
  [][Redealt => /\ sess'.current_dealer = 0
                /\ sess'.leader = leader_of(0, sess.seats)
                /\ sess'.turn = sess'.leader]_vars

C30_DealerLost ==
  /\ ret.op = "place_bid" /\ ret.msg = "All passed: redealt"
  /\ sess.state = BIDDING
  /\ sess.current_dealer = 0
  /\ sess.leader = Seats - 1

ReachesScoring == sess.state = PLAY /\ sess'.state = SCORING

\* C31 as stated: rounds_history gains exactly one entry per round that
\* reaches SCORING, counting the archival of play_card at SCORING and that of
\* start_round, and the round_number values are 1, 2, ..., n.
C31_ArchivedOnce ==
  [][/\ Len(sess'.rounds_history) =
          Len(sess.rounds_history) + (IF ReachesScoring THEN 1 ELSE 0)
     /\ \A i \in 1..Len(sess'.rounds_history) :
          sess'.rounds_history[i].round_number = i]_vars

\* the numbering alone does hold: every record carries its own index
C31_Numbered ==
  \A i \in 1..Len(sess.rounds_history) : sess.rounds_history[i].round_number = i

\* one played round, archived by play_card at SCORING and again by the
\* start_round that follows it
C31_ArchivedTwice ==
  /\ ret.op = "start_round"
  /\ Len(sess.rounds_history) = 2
  /\ sess.rounds_history[1].captured_tricks = sess.rounds_history[2].captured_tricks
  /\ sess.rounds_history[1].points_by_seat = sess.rounds_history[2].points_by_seat

\* how often the card uid is among the cards of a sequence of cards, and of
\* a trick (a sequence of <<seat, card>>)
TimesIn(cards, uid) == Cardinality({i \in 1..Len(cards) : cards[i].uid = uid})
TimesInTrick(trick, uid) == Cardinality({i \in 1..Len(trick) : trick[i][2].uid = uid})

Places(s, uid) ==
  SumSeq([k \in 1..s.seats |-> TimesIn(s.hands[k - 1], uid)])
    + TimesIn(s.kitty, uid)
    + TimesInTrick(s.current_trick, uid)
    + SumSeq([i \in 1..Len(s.captured_tricks) |->
                TimesInTrick(s.captured_tricks[i][2], uid)])

\* C32: in every reachable state after the first deal each card of the deck
\* is in exactly one of a seat's hand, the kitty, the current trick or a
\* captured trick of the current round, and nothing but cards of the deck is
\* in any of them.
C32_CardPartition ==
  sess.deck # <<>> =>
    /\ \A i \in 1..Len(sess.deck) : Places(sess, sess.deck[i].uid) = 1
    /\ \A i, j \in 1..Len(sess.deck) : sess.deck[i].uid = sess.deck[j].uid => i = j
    /\ CardsInHands(sess) + Len(sess.kitty) + CardsInTricks(sess) = Len(sess.deck)

C32_Witness ==
  /\ sess.state = PLAY
  /\ ret.op = "play_card" /\ ret.ok
  /\ ~sess.trump_hidden
  /\ sess.captured_tricks # <<>> /\ sess.current_trick # <<>>
  /\ \E seat \in SeatRange(sess.seats) : sess.hands[seat] # <<>>

CardsValue(cards) == SumSeq([i \in 1..Len(cards) |-> PointValue(cards[i].rank)])

\* the value of the captured tricks of the round that seat won
WonValue(s, seat) ==
  SumSeq([i \in 1..Len(s.captured_tricks) |->
            IF s.captured_tricks[i][1] = seat
              THEN TrickValue(s.captured_tricks[i][2]) ELSE 0])

\* C33: in every reachable state of a round the sum of points_by_seat equals
\* the point value of the cards in the captured tricks of the round, every
\* trick being credited to its winner and to no other seat; at SCORING the
\* total is the point value of all dealt cards outside the kitty.
C33_PointConservation ==
  sess.state \in {BIDDING, CHOOSE_TRUMP, PLAY, SCORING} =>
    /\ \A seat \in SeatRange(sess.seats) :
         sess.points_by_seat[seat] = WonValue(sess, seat)
    /\ SumSeq([k \in 1..sess.seats |-> sess.points_by_seat[k - 1]])
         = SumSeq([i \in 1..Len(sess.captured_tricks) |->
                     TrickValue(sess.captured_tricks[i][2])])
    /\ sess.state = SCORING =>
         SumSeq([k \in 1..sess.seats |-> sess.points_by_seat[k - 1]])
           = CardsValue(sess.deck) - CardsValue(sess.kitty)

C33_Witness ==
  /\ sess.state = SCORING
  /\ ret.op = "play_card" /\ ret.ok
  /\ Cardinality({seat \in SeatRange(sess.seats) : sess.points_by_seat[seat] > 0}) >= 2
  /\ \E i \in 1..Len(sess.captured_tricks) :
       sess.captured_tricks[i][1] # sess.captured_tricks[i][2][1][1]

NonFollowModes == {ON_FIRST_NONFOLLOW, ON_BIDDER_NONFOLLOW}

\* no card the turn seat can name is accepted and reveals trump
C34_NoPlayReveals ==
  (sess.hidden_trump_mode \in NonFollowModes /\ sess.state = PLAY /\ sess.trump_hidden) =>
    \A seat \in SeatRange(sess.seats) : \A card_id \in AllCardIds(sess) :
      LET r == play_card(sess, seat, card_id)
      IN r.ok => r.s.trump_hidden

C34_OnlyManual ==
  sess.hidden_trump_mode \in NonFollowModes =>
    /\ AcceptedPlay => sess'.trump_hidden = sess.trump_hidden
    /\ (sess.trump_hidden /\ ~sess'.trump_hidden) => ManualReveal

\* C34: under ON_FIRST_NONFOLLOW and ON_BIDDER_NONFOLLOW no accepted
\* play_card reveals trump, because a play off the lead suit by a seat that
\* holds the lead suit is rejected; in those modes trump becomes visible only
\* through a successful reveal_trump.
C34_NonFollowNeverFires == []C34_NoPlayReveals /\ [][C34_OnlyManual]_vars

C34_Witness ==
  /\ sess.hidden_trump_mode = ON_BIDDER_NONFOLLOW
  /\ ret.op = "play_card" /\ ret.ok
  /\ sess.trump_hidden
  /\ \E i \in 2..Len(sess.current_trick) :
       /\ sess.current_trick[i][2].suit # sess.current_trick[1][2].suit
       /\ sess.current_trick[i][1] = sess.trump_owner

TrumpChosen == ret'.op = "choose_trump" /\ ret'.ok

\* C35: once trump_hidden is false it stays false until the next
\* start_round, and the trump suit and the seat that chose it do not change
\* between choose_trump and the next start_round.
C35_RevealMonotonic ==
  [][/\ (~sess.trump_hidden /\ sess'.trump_hidden) => Dealing
     /\ sess.trump # NoSuit =>
          \/ sess'.trump = sess.trump /\ sess'.trump_owner = sess.trump_owner
          \/ Dealing
     /\ (sess.trump = NoSuit /\ sess'.trump # NoSuit) =>
          TrumpChosen /\ sess'.trump_owner = sess.bid_winner
     /\ Dealing => sess'.trump = NoSuit /\ sess'.trump_hidden]_vars

C35_Witness ==
  /\ sess.state = PLAY
  /\ ~sess.trump_hidden
  /\ ret.op = "play_card" /\ ret.ok
  /\ sess.captured_tricks # <<>>
  /\ sess.trump_owner = sess.bid_winner
  /\ sess.trump # NoSuit

BidAt(s, j) == s.bids[(s.leader - (j - 1)) % s.seats]

MaxNumeric(s) ==
  CHOOSE v \in {s.bids[i] : i \in Numeric(s)} : \A i \in Numeric(s) : s.bids[i] <= v

\* C37: in every BIDDING and CHOOSE_TRUMP state current_highest = bid_value =
\* the maximum numeric bid recorded in bids, unset iff no numeric bid has
\* been placed, bids[bid_winner] = bid_value, the accepted numeric bids are
\* strictly increasing in the order placed, and bid_winner is a seat in every
\* CHOOSE_TRUMP and PLAY state.
C37_BidBookkeeping ==
  /\ sess.state \in {BIDDING, CHOOSE_TRUMP} =>
       /\ sess.current_highest = sess.bid_value
       /\ (sess.bid_value = None) = (Numeric(sess) = {})
       /\ (sess.bid_winner = None) = (Numeric(sess) = {})
       /\ Numeric(sess) # {} =>
            /\ sess.bid_value = MaxNumeric(sess)
            /\ sess.bid_winner \in Numeric(sess)
            /\ sess.bids[sess.bid_winner] = sess.bid_value
       /\ \A j, k \in 1..sess.seats :
            (j < k /\ BidAt(sess, j) \notin {None, PASS}
                   /\ BidAt(sess, k) \notin {None, PASS})
              => BidAt(sess, j) < BidAt(sess, k)
  /\ sess.state \in {CHOOSE_TRUMP, PLAY} =>
       /\ sess.bid_winner \in SeatRange(sess.seats)
       /\ sess.bids[sess.bid_winner] = sess.bid_value

C37_Witness ==
  /\ sess.state = PLAY
  /\ ret.op = "choose_trump" /\ ret.ok
  /\ Cardinality(Numeric(sess)) >= 2
  /\ sess.bid_winner # sess.leader
  /\ \E i \in SeatRange(sess.seats) : sess.bids[i] = PASS

\* in PLAY the turn seat holds a card that play_card accepts
C38_CanPlay ==
  sess.state = PLAY =>
    \E k \in 1..Len(sess.hands[sess.turn]) :
      play_card(sess, sess.turn, sess.hands[sess.turn][k].uid).ok

\* at SCORING the round took deck_size div seats tricks of seats cards each
C38_RoundLength ==
  sess.state = SCORING =>
    /\ Len(sess.captured_tricks) = DeckSize(sess) \div sess.seats
    /\ \A i \in 1..Len(sess.captured_tricks) :
         Len(sess.captured_tricks[i][2]) = sess.seats

\* C38: in every PLAY state the turn seat holds at least one card whose
\* play_card is accepted; if the turn seat always eventually plays a legal
\* card, the round reaches SCORING, after exactly (deck_size div seats)
\* tricks of seats cards each.
C38_PlayProgress ==
  /\ [](C38_CanPlay /\ C38_RoundLength)
  /\ (sess.state = PLAY ~> sess.state = SCORING)

C38_Witness ==
  /\ sess.state = SCORING
  /\ ret.op = "play_card" /\ ret.ok
  /\ Len(sess.captured_tricks) = DeckSize(sess) \div sess.seats
  /\ \E i \in 1..Len(sess.captured_tricks) : \E j \in 2..sess.seats :
       sess.captured_tricks[i][2][j][2].suit # sess.captured_tricks[i][2][1][2].suit

\* C39 as stated: a play that completes a trick returns success with a
\* message that names the winner and the points just awarded for the trick,
\* the sum of the point values of its cards; a play that does not complete a
\* trick returns 'Card played'.
C39_TrickMessage ==
  (ret.op = "play_card" /\ ret.ok) =>
    IF sess.current_trick = <<>>
      THEN /\ ret.msg = TrickCompleteMsg
           /\ ret.args = <<sess.last_trick[1], TrickValue(sess.last_trick[2])>>
      ELSE ret.msg = "Card played" /\ ret.args = <<>>

\* what the message holds: the winner, and 0 for the points whatever the
\* trick was worth
C39_PointsAlwaysZero ==
  (ret.op = "play_card" /\ ret.ok) =>
    IF sess.current_trick = <<>>
      THEN /\ ret.msg = TrickCompleteMsg
           /\ ret.args = <<sess.last_trick[1], 0>>
      ELSE ret.msg = "Card played" /\ ret.args = <<>>

C39_WorthMoreThanSaid ==
  /\ ret.op = "play_card" /\ ret.ok /\ ret.msg = TrickCompleteMsg
  /\ TrickValue(sess.last_trick[2]) > 0
  /\ ret.args[2] = 0

\* no caller asks for the lock while it holds it, and the lock is held only
\* by a caller inside a lock section
C40_NoReentry ==
  /\ \A i \in 1..Len(waiters) : lock # waiters[i]
  /\ \A p \in Callers : calls[p].pc \in {"waiting", "redeal", "redeal_waiting"} => lock # p
  /\ lock # None => InLock(lock)

\* a caller that returns, normally or by raising, and a place_bid that goes
\* on to its redeal, has left the lock free
C40_Released ==
  \A p \in Callers :
    (InLock(p) /\ calls'[p].pc \in {"idle", "redeal"}) => lock' = None

\* C40: no operation requests the session lock while already holding it and
\* every operation releases the lock on every return and exception path; the
\* all-pass place_bid releases the lock before it calls start_round, so under
\* fair scheduling every invoked operation, a redealing place_bid competing
\* with other callers included, eventually returns.
C40_DeadlockFree ==
  /\ []C40_NoReentry
  /\ [][C40_Released]_vars
  /\ \A p \in Callers : (calls[p].pc # "idle") ~> (calls[p].pc = "idle")

C40_Witness ==
  /\ ret.op = "place_bid" /\ ret.msg = "All passed: redealt"
  /\ \E p \in Callers : calls[p] = Idle
  /\ \E q \in Callers : calls[q].pc = "waiting"
  /\ sess.state = BIDDING /\ sess.bids_received = {}

====
